---- MODULE Spec2Model ----
(***************************************************************************)
(* Portfolio valuation and reconciliation engine of the Motus portfolio    *)
(* dashboard: the SQLite ledger behind the Express routes                  *)
(* (src/server/index.js) and the derived calculations of the React client  *)
(* (src/client/src/App.js).                                                *)
(*                                                                         *)
(* Numbers.  Unit quantities are counted in steps of 0.00005 units, so the *)
(* dust threshold 0.0001 of GET /portfolio is DustThreshold = 2 steps.     *)
(* Money is counted in whole steps of price x unit-step; every formula of  *)
(* the program that is modelled is linear in these scales.  A quotient     *)
(* a / b that the program computes in floating point is kept exact as the  *)
(* pair <<a, b>>.  A nullable value (SQL NULL, JS null/undefined) is the   *)
(* empty tuple Null, a present value v is <<v>>.                           *)
(***************************************************************************)
EXTENDS Integers, Sequences, FiniteSets, TLC

VARIABLES
    trades,          \* table trades: id -> row
    nextTradeId,     \* AUTOINCREMENT sequence of trades
    investors,       \* table investors: id -> row
    nextInvestorId,
    perf_tracker,    \* table perf_tracker: id -> row, month UNIQUE
    nextPerfId,
    exits,           \* table exits: id -> row
    nextExitId,
    manual_prices,   \* table manual_prices: token (UNIQUE) -> price
    prices,          \* App state: the quotes of the last GET /prices
    manualPrices,    \* App state: the rows of GET /manual-prices
    holdings,        \* App state: the rows of GET /portfolio
    usdcData,        \* App state: the object of GET /portfolio/usdc, or null
    perfTracker,     \* App state: the rows of GET /perf-tracker
    checkerData,     \* CheckerTab state `data`: GET /checker/portfolio, or null
    currentMonth,    \* the month of `new Date()`, as the number YYYYMM
    priceCache,      \* server: the price cache {data, timestamp}
    pending,         \* server: the GET /prices requests awaiting the upstream
                     \* call: request -> the `now` it captured
    now,             \* server: Date.now(), in ticks of 30 seconds
    reply            \* the last response of GET /prices, an import or a
                     \* bulk delete, or null

appVars == <<prices, manualPrices, holdings, usdcData, perfTracker,
             checkerData, currentMonth>>

vars == <<trades, nextTradeId, investors, nextInvestorId,
          perf_tracker, nextPerfId, exits, nextExitId, manual_prices,
          appVars, priceCache, pending, now, reply>>

----------------------------------------------------------------------------
(* Bounds of the model *)

MaxTrades == 2        \* rows ever inserted into trades
MaxInvestors == 2     \* rows ever inserted into investors
MaxPerf == 2          \* rows ever inserted into perf_tracker
MaxRows == 2          \* rows of one imported sheet
MaxClock == 6         \* the last tick of the server clock
MaxExits == 2         \* rows ever inserted into exits
MaxRequests == 2      \* GET /prices requests open at the same time

----------------------------------------------------------------------------
(* Values *)

Null == <<>>
Some(v) == <<v>>

\* JS `x || 0` and the numeric coercion of null
Num(x) == IF x = Null THEN 0 ELSE x[1]

\* JS truthiness of a number that may be missing
Truthy(x) == x # Null /\ x[1] # 0

\* a minus sign that is dropped
Neg_Dropped(x) == x

\* SQL unary minus: -NULL is NULL
Neg(x) == IF x = Null THEN Null ELSE Some(-x[1])

\* a token stored as it was typed
ToUpperCase_AsTyped(s) == s

\* String.prototype.toUpperCase on the token symbols of the model
ToUpperCase(s) ==
    CASE s = "btc" -> "BTC"
      [] s = "btc " -> "BTC "
      [] s = "usdc" -> "USDC"
      [] s = "xyz" -> "XYZ"
      [] OTHER -> s

DustThreshold == 2

\* CACHE_DURATION = 60000 ms, in ticks of 30 seconds
CacheDuration == 2

TradeTypes == {"Buy", "Sell", "Income"}

----------------------------------------------------------------------------
(* SQL aggregation *)

RECURSIVE SqlSumOver(_, _)
\* SUM(expr) over the rows with ids S of a column given as a function
\* id -> nullable value: NULL terms are ignored, SUM of no non-NULL term is
\* NULL
SqlSumOver(col, S) ==
    IF S = {} THEN Null
    ELSE LET i == CHOOSE j \in S : TRUE
             rest == SqlSumOver(col, S \ {i})
         IN  IF col[i] = Null THEN rest
             ELSE IF rest = Null THEN col[i]
             ELSE Some(col[i][1] + rest[1])

SqlSum(col) == SqlSumOver(col, DOMAIN col)

Coalesce(x, d) == IF x = Null THEN Some(d) ELSE x

----------------------------------------------------------------------------
(* POST /trades, PUT /trades/:id : the row stored for a request body *)

TradeRow(body) ==
    LET deriveAvg == ~Truthy(body.avg_price) /\ Truthy(body.total)
                        /\ body.units # 0
        deriveTotal == ~deriveAvg /\ ~Truthy(body.total)
                        /\ Truthy(body.avg_price) /\ body.units # 0
        finalAvgPrice ==
            IF deriveAvg THEN <<body.total[1], body.units>>
            ELSE IF body.avg_price = Null THEN Null
            ELSE <<body.avg_price[1], 1>>
        finalTotal ==
            IF deriveTotal THEN Some(body.avg_price[1] * body.units)
            ELSE body.total
    IN  [token |-> ToUpperCase(body.token), units |-> body.units,
         avg_price |-> finalAvgPrice, total |-> finalTotal,
         type |-> body.type]

PostTrade(body) ==
    /\ nextTradeId <= MaxTrades
    /\ trades' = [i \in DOMAIN trades \cup {nextTradeId} |->
                    IF i = nextTradeId THEN TradeRow(body) ELSE trades[i]]
    /\ nextTradeId' = nextTradeId + 1
    /\ UNCHANGED <<investors, nextInvestorId, perf_tracker, nextPerfId,
                   exits, nextExitId,
                   manual_prices, appVars, priceCache, pending, now, reply>>

PutTrade(id, body) ==
    /\ id \in DOMAIN trades
    /\ trades' = [trades EXCEPT ![id] = TradeRow(body)]
    /\ UNCHANGED <<nextTradeId, investors, nextInvestorId, perf_tracker,
                   nextPerfId, exits, nextExitId,
                   manual_prices, appVars, priceCache, pending, now, reply>>

DeleteTrade(id) ==
    /\ id \in DOMAIN trades
    /\ trades' = [i \in DOMAIN trades \ {id} |-> trades[i]]
    /\ UNCHANGED <<nextTradeId, investors, nextInvestorId, perf_tracker,
                   nextPerfId, exits, nextExitId,
                   manual_prices, appVars, priceCache, pending, now, reply>>

----------------------------------------------------------------------------
(* GET /portfolio : the Holdings Aggregator *)

\* a units term that leaves income out
UnitsTerm_NoIncome(r) ==
    CASE r.type = "Buy" -> Some(r.units)
      [] r.type = "Sell" -> Some(-r.units)
      [] OTHER -> Some(0)

\* CASE WHEN type = 'Buy' THEN units WHEN type = 'Sell' THEN -units
\*      WHEN type = 'Income' THEN units ELSE 0 END
UnitsTerm(r) ==
    CASE r.type = "Buy" -> Some(r.units)
      [] r.type = "Sell" -> Some(-r.units)
      [] r.type = "Income" -> Some(r.units)
      [] OTHER -> Some(0)

\* a cost term that books income at its total
CostTerm_IncomeCosts(r) ==
    CASE r.type = "Buy" -> r.total
      [] r.type = "Sell" -> Neg(r.total)
      [] OTHER -> r.total

\* a cost term that books a sale as a cost
CostTerm_SellAdds(r) ==
    CASE r.type = "Buy" -> r.total
      [] r.type = "Sell" -> r.total
      [] OTHER -> Some(0)

\* CASE WHEN type = 'Buy' THEN total WHEN type = 'Sell' THEN -total
\*      ELSE 0 END
CostTerm(r) ==
    CASE r.type = "Buy" -> r.total
      [] r.type = "Sell" -> Neg(r.total)
      [] OTHER -> Some(0)

\* GROUP BY token
TokenGroup(t) == {i \in DOMAIN trades : trades[i].token = t}

GroupRow(t) ==
    [token |-> t,
     total_units |-> SqlSumOver([i \in DOMAIN trades |-> UnitsTerm(trades[i])],
                                TokenGroup(t))[1],
     cost_basis |-> SqlSumOver([i \in DOMAIN trades |-> CostTerm(trades[i])],
                               TokenGroup(t))]

\* a filter that keeps a position exactly at the threshold
Having_Inclusive(g) ==
    g.total_units >= DustThreshold \/ g.total_units <= -DustThreshold

\* HAVING total_units > 0.0001 OR total_units < -0.0001
Having(g) == g.total_units > DustThreshold \/ g.total_units < -DustThreshold

\* ORDER BY cost_basis DESC (NULL sorts lowest; ties in an order the
\* engine picks)
CostBefore(a, b) ==
    \/ b.cost_basis = Null
    \/ a.cost_basis # Null /\ a.cost_basis[1] >= b.cost_basis[1]

RECURSIVE OrderByCostBasisDesc(_)
OrderByCostBasisDesc(S) ==
    IF S = {} THEN <<>>
    ELSE LET first == CHOOSE g \in S : \A h \in S : CostBefore(g, h)
         IN  <<first>> \o OrderByCostBasisDesc(S \ {first})

GetPortfolio ==
    OrderByCostBasisDesc(
        {g \in {GroupRow(trades[i].token) : i \in DOMAIN trades} : Having(g)})

----------------------------------------------------------------------------
(* GET /portfolio/usdc : the Cash Residual Calculator *)

GetPortfolioUsdc ==
    LET subscriptions ==
            Coalesce(SqlSum([i \in DOMAIN investors |->
                                Some(investors[i].amount)]), 0)
        nonUsdc == {i \in DOMAIN trades : ToUpperCase(trades[i].token) # "USDC"}
        costBasis ==
            Coalesce(SqlSumOver([i \in DOMAIN trades |-> CostTerm(trades[i])],
                                nonUsdc), 0)
        fund_expenses ==
            Coalesce(SqlSum([i \in DOMAIN perf_tracker |->
                                Some(perf_tracker[i].fund_expenses)]), 0)
        mgmt_fees ==
            Coalesce(SqlSum([i \in DOMAIN perf_tracker |->
                                Some(perf_tracker[i].mgmt_fees)]), 0)
        setup_costs ==
            Coalesce(SqlSum([i \in DOMAIN perf_tracker |->
                                Some(perf_tracker[i].setup_costs)]), 0)
        totalExpenses == Num(fund_expenses) + Num(mgmt_fees) + Num(setup_costs)
        exitsCostBasis ==
            Coalesce(SqlSum([i \in DOMAIN exits |->
                                Some(exits[i].cost_basis)]), 0)
        usdcBalance == Num(subscriptions) - Num(costBasis) - totalExpenses
                          - Num(exitsCostBasis)
    IN  [total_subscriptions |-> Num(subscriptions),
         cost_basis |-> Num(costBasis),
         total_expenses |-> totalExpenses,
         exits_cost_basis |-> Num(exitsCostBasis),
         usdc_balance |-> usdcBalance]

----------------------------------------------------------------------------
(* Investors, monthly performance records, exits *)

PostInvestor(body) ==
    /\ nextInvestorId <= MaxInvestors
    /\ investors' = [i \in DOMAIN investors \cup {nextInvestorId} |->
                        IF i = nextInvestorId
                        THEN [type |-> body.type, amount |-> body.amount]
                        ELSE investors[i]]
    /\ nextInvestorId' = nextInvestorId + 1
    /\ UNCHANGED <<trades, nextTradeId, perf_tracker, nextPerfId,
                   exits, nextExitId,
                   manual_prices, appVars, priceCache, pending, now, reply>>

PutInvestor(id, body) ==
    /\ id \in DOMAIN investors
    /\ investors' = [investors EXCEPT
                        ![id] = [type |-> body.type, amount |-> body.amount]]
    /\ UNCHANGED <<trades, nextTradeId, nextInvestorId, perf_tracker,
                   nextPerfId, exits, nextExitId,
                   manual_prices, appVars, priceCache, pending, now, reply>>

DeleteInvestor(id) ==
    /\ id \in DOMAIN investors
    /\ investors' = [i \in DOMAIN investors \ {id} |-> investors[i]]
    /\ UNCHANGED <<trades, nextTradeId, nextInvestorId, perf_tracker,
                   nextPerfId, exits, nextExitId,
                   manual_prices, appVars, priceCache, pending, now, reply>>

\* the bound values of the perf_tracker statements: every field `x || 0`
PerfRow(body) ==
    [month |-> body.month,
     gp_subs |-> Num(body.gp_subs), lp_subs |-> Num(body.lp_subs),
     ending_value |-> Num(body.ending_value),
     fund_expenses |-> Num(body.fund_expenses),
     mgmt_fees |-> Num(body.mgmt_fees),
     setup_costs |-> Num(body.setup_costs)]

\* INSERT ... ON CONFLICT(month) DO UPDATE SET every field = excluded.field
PostPerfTracker(body) ==
    LET same == {i \in DOMAIN perf_tracker :
                    perf_tracker[i].month = body.month}
    IN  /\ IF same # {}
           THEN /\ perf_tracker' = [i \in DOMAIN perf_tracker |->
                                       IF i \in same THEN PerfRow(body)
                                       ELSE perf_tracker[i]]
                /\ nextPerfId' = nextPerfId
           ELSE /\ nextPerfId <= MaxPerf
                /\ perf_tracker' = [i \in DOMAIN perf_tracker \cup {nextPerfId}
                                       |-> IF i = nextPerfId THEN PerfRow(body)
                                           ELSE perf_tracker[i]]
                /\ nextPerfId' = nextPerfId + 1
        /\ UNCHANGED <<trades, nextTradeId, investors, nextInvestorId,
                       exits, nextExitId,
                   manual_prices, appVars, priceCache, pending, now, reply>>

\* UPDATE ... WHERE id = ? ; a month held by another row violates UNIQUE and
\* the statement fails without a change
PutPerfTracker(id, body) ==
    /\ id \in DOMAIN perf_tracker
    /\ perf_tracker' =
          IF \E j \in DOMAIN perf_tracker \ {id} :
                  perf_tracker[j].month = body.month
          THEN perf_tracker
          ELSE [perf_tracker EXCEPT ![id] = PerfRow(body)]
    /\ UNCHANGED <<trades, nextTradeId, investors, nextInvestorId,
                   nextPerfId, exits, nextExitId,
                   manual_prices, appVars, priceCache, pending, now, reply>>

DeletePerfTracker(id) ==
    /\ id \in DOMAIN perf_tracker
    /\ perf_tracker' = [i \in DOMAIN perf_tracker \ {id} |-> perf_tracker[i]]
    /\ UNCHANGED <<trades, nextTradeId, investors, nextInvestorId,
                   nextPerfId, exits, nextExitId,
                   manual_prices, appVars, priceCache, pending, now, reply>>

\* POST /upload/perf-tracker. A sheet row is given by its parsed month
\* (null when parseMonthValue finds none) and its cells, null where empty.
\* The statement binds month and the non-expense fields only.

\* parseFloat(cell || 0), NaN read as 0
ParseCell(cell) == Num(cell)

\* the row a sheet row inserts: the expense columns take DEFAULT 0
PerfImportInsert(row) ==
    [month |-> row.month[1],
     gp_subs |-> ParseCell(row.gp_subs), lp_subs |-> ParseCell(row.lp_subs),
     ending_value |-> ParseCell(row.ending_value),
     fund_expenses |-> 0, mgmt_fees |-> 0, setup_costs |-> 0]

\* ON CONFLICT(month) DO UPDATE SET of the fields the statement lists;
\* fund_expenses, mgmt_fees and setup_costs are not among them
PerfImportUpdate(old, row) ==
    [old EXCEPT !.gp_subs = ParseCell(row.gp_subs),
                !.lp_subs = ParseCell(row.lp_subs),
                !.ending_value = ParseCell(row.ending_value)]

RECURSIVE ImportPerfRows(_, _)
\* insertMany over the first n rows: the table, the next id and the two
\* counters
ImportPerfRows(rows, n) ==
    IF n = 0
    THEN [table |-> perf_tracker, nextId |-> nextPerfId,
          imported |-> 0, skipped |-> 0]
    ELSE LET acc == ImportPerfRows(rows, n - 1)
             row == rows[n]
             same == {i \in DOMAIN acc.table :
                         row.month # Null /\ acc.table[i].month = row.month[1]}
         IN  IF row.month = Null
             THEN [acc EXCEPT !.skipped = @ + 1]
             ELSE IF same # {}
             THEN [acc EXCEPT
                     !.table = [i \in DOMAIN acc.table |->
                                   IF i \in same
                                   THEN PerfImportUpdate(acc.table[i], row)
                                   ELSE acc.table[i]],
                     !.imported = @ + 1]
             ELSE [acc EXCEPT
                     !.table = [i \in DOMAIN acc.table \cup {acc.nextId} |->
                                   IF i = acc.nextId THEN PerfImportInsert(row)
                                   ELSE acc.table[i]],
                     !.nextId = @ + 1,
                     !.imported = @ + 1]

UploadPerfTracker(rows) ==
    LET done == ImportPerfRows(rows, Len(rows))
    IN  /\ Len(rows) > 0
        /\ done.nextId <= MaxPerf + 1
        /\ perf_tracker' = done.table
        /\ nextPerfId' = done.nextId
        /\ reply' = [route |-> "upload/perf-tracker", status |-> 200,
                     body |-> [success |-> TRUE, imported |-> done.imported,
                               skipped |-> done.skipped, total |-> Len(rows)],
                     error_logged |-> FALSE]
        /\ UNCHANGED <<trades, nextTradeId, investors, nextInvestorId,
                       exits, nextExitId, manual_prices, appVars,
                       priceCache, pending, now>>

ExitRow(body) ==
    [token |-> ToUpperCase(body.token), cost_basis |-> body.cost_basis]

PostExit(body) ==
    /\ nextExitId <= MaxExits
    /\ exits' = [i \in DOMAIN exits \cup {nextExitId} |->
                    IF i = nextExitId THEN ExitRow(body) ELSE exits[i]]
    /\ nextExitId' = nextExitId + 1
    /\ UNCHANGED <<trades, nextTradeId, investors, nextInvestorId,
                   perf_tracker, nextPerfId,
                   manual_prices, appVars, priceCache, pending, now, reply>>

PutExit(id, body) ==
    /\ id \in DOMAIN exits
    /\ exits' = [exits EXCEPT ![id] = ExitRow(body)]
    /\ UNCHANGED <<trades, nextTradeId, investors, nextInvestorId,
                   perf_tracker, nextPerfId, nextExitId,
                   manual_prices, appVars, priceCache, pending, now, reply>>

DeleteExit(id) ==
    /\ id \in DOMAIN exits
    /\ exits' = [i \in DOMAIN exits \ {id} |-> exits[i]]
    /\ UNCHANGED <<trades, nextTradeId, investors, nextInvestorId,
                   perf_tracker, nextPerfId, nextExitId,
                   manual_prices, appVars, priceCache, pending, now, reply>>

----------------------------------------------------------------------------
(* POST /upload/trades : the trade import *)

\* A sheet row is given by its cells after getColumnValue (null where
\* empty): token, units after parseFloat (null for NaN), avg_price and
\* total after parsing, the type text, and whether the INSERT raises for it.

\* String.prototype.trim on the token cells of the model
Trim(s) ==
    CASE s = " " -> ""
      [] s = "btc " -> "btc"
      [] s = "BTC " -> "BTC"
      [] OTHER -> s

MathAbs(x) == IF x < 0 THEN -x ELSE x

\* normalizeTradeType
normalizeTradeType(type) ==
    IF type = Null THEN "Buy"
    ELSE IF type[1] = "sell" THEN "Sell"
    ELSE IF type[1] = "income" THEN "Income"
    ELSE "Buy"

\* the three `continue` branches in their order: the reason counter a row
\* is skipped under, or null when the row goes on to the INSERT
SkipReason(row) ==
    IF row.token = Null \/ Trim(row.token[1]) = "" THEN Some("noToken")
    ELSE IF row.units = Null THEN Some("invalidUnits")
    ELSE IF row.units[1] = 0 /\ ~Truthy(row.total) THEN Some("zeroUnits")
    ELSE Null

\* the values bound to the INSERT, after the missing field is derived
ImportTradeRow(row) ==
    LET units == row.units[1]
        deriveAvg == ~Truthy(row.avg_price) /\ Truthy(row.total) /\ units # 0
        deriveTotal == ~deriveAvg /\ ~Truthy(row.total)
                          /\ Truthy(row.avg_price) /\ units # 0
        parsedAvgPrice ==
            IF deriveAvg THEN <<MathAbs(row.total[1]), MathAbs(units)>>
            ELSE IF row.avg_price = Null THEN Null
            ELSE <<row.avg_price[1], 1>>
        parsedTotal ==
            IF deriveTotal THEN Some(row.avg_price[1] * units) ELSE row.total
    IN  [token |-> Trim(ToUpperCase(row.token[1])),
         units |-> MathAbs(units),
         avg_price |-> parsedAvgPrice,
         total |-> IF Truthy(parsedTotal) THEN Some(MathAbs(parsedTotal[1]))
                   ELSE Null,
         type |-> normalizeTradeType(row.type)]

\* a catch block that forgets the row
AfterRowError_Uncounted(acc) == acc

\* catch (rowError): errors.push(...); skipped++
AfterRowError(acc) ==
    [acc EXCEPT !.errors = @ + 1, !.skipped = @ + 1]

RECURSIVE ImportTradeRows(_, _)
\* insertMany over the first n rows: the table, the next id, the counters
ImportTradeRows(rows, n) ==
    IF n = 0
    THEN [table |-> trades, nextId |-> nextTradeId, imported |-> 0,
          skipped |-> 0, errors |-> 0,
          skippedReasons |-> [noToken |-> 0, zeroUnits |-> 0,
                              invalidUnits |-> 0, other |-> 0]]
    ELSE LET acc == ImportTradeRows(rows, n - 1)
             row == rows[n]
             why == SkipReason(row)
         IN  IF why # Null
             THEN [acc EXCEPT !.skipped = @ + 1,
                              !.skippedReasons[why[1]] = @ + 1]
             ELSE IF row.raises THEN AfterRowError(acc)
             ELSE [acc EXCEPT
                     !.table = [i \in DOMAIN acc.table \cup {acc.nextId} |->
                                   IF i = acc.nextId THEN ImportTradeRow(row)
                                   ELSE acc.table[i]],
                     !.nextId = @ + 1,
                     !.imported = @ + 1]

UploadTrades(rows) ==
    LET done == ImportTradeRows(rows, Len(rows))
    IN  /\ Len(rows) > 0
        /\ done.nextId <= MaxTrades + 1
        /\ trades' = done.table
        /\ nextTradeId' = done.nextId
        /\ reply' = [route |-> "upload/trades", status |-> 200,
                     body |-> [success |-> TRUE, imported |-> done.imported,
                               skipped |-> done.skipped, total |-> Len(rows),
                               skippedReasons |-> done.skippedReasons,
                               errors |-> done.errors],
                     error_logged |-> done.errors > 0]
        /\ UNCHANGED <<investors, nextInvestorId, perf_tracker, nextPerfId,
                       exits, nextExitId, manual_prices, appVars,
                       priceCache, pending, now>>

----------------------------------------------------------------------------
(* POST /upload/exits : the exit import *)

\* A sheet row is given by its token cell (null where empty), its cost
\* after parseFloat (null for NaN), and whether the INSERT raises for it.

RECURSIVE ImportExitRows(_, _)
\* insertMany over the first n rows
ImportExitRows(rows, n) ==
    IF n = 0
    THEN [table |-> exits, nextId |-> nextExitId, imported |-> 0,
          skipped |-> 0, errors |-> 0]
    ELSE LET acc == ImportExitRows(rows, n - 1)
             row == rows[n]
         IN  IF row.token = Null \/ Trim(row.token[1]) = ""
             THEN [acc EXCEPT !.skipped = @ + 1]
             ELSE IF row.cost = Null THEN [acc EXCEPT !.skipped = @ + 1]
             ELSE IF row.raises
             THEN [acc EXCEPT !.errors = @ + 1, !.skipped = @ + 1]
             ELSE [acc EXCEPT
                     !.table = [i \in DOMAIN acc.table \cup {acc.nextId} |->
                                   IF i = acc.nextId
                                   THEN [token |-> Trim(ToUpperCase(row.token[1])),
                                         cost_basis |-> row.cost[1]]
                                   ELSE acc.table[i]],
                     !.nextId = @ + 1,
                     !.imported = @ + 1]

UploadExits(rows) ==
    LET done == ImportExitRows(rows, Len(rows))
    IN  /\ Len(rows) > 0
        /\ done.nextId <= MaxExits + 1
        /\ exits' = done.table
        /\ nextExitId' = done.nextId
        /\ reply' = [route |-> "upload/exits", status |-> 200,
                     body |-> [success |-> TRUE, imported |-> done.imported,
                               skipped |-> done.skipped, total |-> Len(rows),
                               errors |-> done.errors],
                     error_logged |-> FALSE]
        /\ UNCHANGED <<trades, nextTradeId, investors, nextInvestorId,
                       perf_tracker, nextPerfId, manual_prices, appVars,
                       priceCache, pending, now>>

----------------------------------------------------------------------------
(* DELETE /<table>/all as the Upload tab issues it, through the router *)

\* the path segment `all` of the bulk requests
AllSegment == [all |-> TRUE, id |-> 0]

\* the DELETE routes of one table in the order they are registered, the
\* same for trades, investors, perf-tracker and exits
DeleteRoutes == <<"/:id", "/all">>

\* a path pattern against a one-segment path: a parameter takes any segment
RouteMatches(route, seg) == route = "/:id" \/ (route = "/all" /\ seg.all)

\* the router runs the first registered route that matches
FirstMatch(routes, seg) ==
    routes[CHOOSE k \in 1..Len(routes) :
              /\ RouteMatches(routes[k], seg)
              /\ \A j \in 1..(k - 1) : ~RouteMatches(routes[j], seg)]

\* WHERE id = ? : the text 'all' equals no integer key
RowsWithId(table, seg) ==
    IF seg.all THEN {} ELSE {i \in DOMAIN table : i = seg.id}

\* the table after the matched handler: DELETE FROM t, or
\* DELETE FROM t WHERE id = ?
DeleteFrom(table, seg) ==
    IF FirstMatch(DeleteRoutes, seg) = "/all" THEN [i \in {} |-> Null]
    ELSE [i \in DOMAIN table \ RowsWithId(table, seg) |-> table[i]]

\* both handlers answer { success: true }
DeleteReply(path) ==
    [route |-> path, status |-> 200, body |-> [success |-> TRUE],
     error_logged |-> FALSE]

ClearTrades ==
    /\ trades' = DeleteFrom(trades, AllSegment)
    /\ reply' = DeleteReply("DELETE /trades/all")
    /\ UNCHANGED <<nextTradeId, investors, nextInvestorId, perf_tracker,
                   nextPerfId, exits, nextExitId, manual_prices, appVars,
                   priceCache, pending, now>>

ClearInvestors ==
    /\ investors' = DeleteFrom(investors, AllSegment)
    /\ reply' = DeleteReply("DELETE /investors/all")
    /\ UNCHANGED <<trades, nextTradeId, nextInvestorId, perf_tracker,
                   nextPerfId, exits, nextExitId, manual_prices, appVars,
                   priceCache, pending, now>>

ClearPerfTracker ==
    /\ perf_tracker' = DeleteFrom(perf_tracker, AllSegment)
    /\ reply' = DeleteReply("DELETE /perf-tracker/all")
    /\ UNCHANGED <<trades, nextTradeId, investors, nextInvestorId,
                   nextPerfId, exits, nextExitId, manual_prices, appVars,
                   priceCache, pending, now>>

ClearExits ==
    /\ exits' = DeleteFrom(exits, AllSegment)
    /\ reply' = DeleteReply("DELETE /exits/all")
    /\ UNCHANGED <<trades, nextTradeId, investors, nextInvestorId,
                   perf_tracker, nextPerfId, nextExitId, manual_prices,
                   appVars, priceCache, pending, now>>

----------------------------------------------------------------------------
(* Manual price overrides *)

\* INSERT ... ON CONFLICT(token) DO UPDATE SET price = excluded.price
PostManualPrice(body) ==
    /\ manual_prices' =
          [t \in DOMAIN manual_prices \cup {ToUpperCase(body.token)} |->
              IF t = ToUpperCase(body.token) THEN body.price
              ELSE manual_prices[t]]
    /\ UNCHANGED <<trades, nextTradeId, investors, nextInvestorId,
                   perf_tracker, nextPerfId, exits, nextExitId, appVars, priceCache, pending, now, reply>>

DeleteManualPrice(token) ==
    /\ manual_prices' =
          [t \in DOMAIN manual_prices \ {ToUpperCase(token)} |->
              manual_prices[t]]
    /\ UNCHANGED <<trades, nextTradeId, investors, nextInvestorId,
                   perf_tracker, nextPerfId, exits, nextExitId, appVars, priceCache, pending, now, reply>>

\* the token symbols in the order of ORDER BY token
TokenOrder == <<"BTC", "USDC", "XYZ">>

\* GET /manual-prices
GetManualPrices ==
    LET present == SelectSeq(TokenOrder, LAMBDA t : t \in DOMAIN manual_prices)
    IN  [k \in 1..Len(present) |->
            [token |-> present[k], price |-> manual_prices[present[k]]]]

RECURSIVE OrderByMonth(_, _)
\* the rows with ids S of a table in ascending month (month is UNIQUE)
OrderByMonth(table, S) ==
    IF S = {} THEN <<>>
    ELSE LET first == CHOOSE i \in S :
                          \A j \in S : table[i].month <= table[j].month
         IN  <<table[first]>> \o OrderByMonth(table, S \ {first})

\* GET /perf-tracker : SELECT * FROM perf_tracker ORDER BY month ASC
GetPerfTracker == OrderByMonth(perf_tracker, DOMAIN perf_tracker)

----------------------------------------------------------------------------
(* GET /prices as the client sees it *)

(* GET /checker/portfolio : the reconciliation endpoint *)

\* one row of the breakdown query: GROUP BY token over every trade
CheckerHoldingRow(t) ==
    [token |-> t,
     net_units |-> SqlSumOver([i \in DOMAIN trades |-> UnitsTerm(trades[i])],
                              TokenGroup(t))[1],
     cost_basis |-> SqlSumOver([i \in DOMAIN trades |-> CostTerm(trades[i])],
                               TokenGroup(t)),
     trade_count |-> Cardinality(TokenGroup(t))]

\* a filter that lets the USDC group through
CheckerKeeps_All(h) == TRUE

\* h => h.token.toUpperCase() !== 'USDC'
CheckerKeeps(h) == ToUpperCase(h.token) # "USDC"

RECURSIVE CheckerCostBasis(_, _)
\* .filter(...).reduce((sum, h) => sum + (h.cost_basis || 0), 0) over the
\* first n rows
CheckerCostBasis(rows, n) ==
    IF n = 0 THEN 0
    ELSE CheckerCostBasis(rows, n - 1)
            + (IF CheckerKeeps(rows[n]) THEN Num(rows[n].cost_basis) ELSE 0)

GetCheckerPortfolio ==
    LET present == SelectSeq(TokenOrder, LAMBDA t : TokenGroup(t) # {})
        rows == [k \in 1..Len(present) |-> CheckerHoldingRow(present[k])]
        total_subscriptions ==
            Coalesce(SqlSum([i \in DOMAIN investors |->
                                Some(investors[i].amount)]), 0)
        fund_expenses ==
            Coalesce(SqlSum([i \in DOMAIN perf_tracker |->
                                Some(perf_tracker[i].fund_expenses)]), 0)
        mgmt_fees ==
            Coalesce(SqlSum([i \in DOMAIN perf_tracker |->
                                Some(perf_tracker[i].mgmt_fees)]), 0)
        setup_costs ==
            Coalesce(SqlSum([i \in DOMAIN perf_tracker |->
                                Some(perf_tracker[i].setup_costs)]), 0)
        totalExpenses == Num(fund_expenses) + Num(mgmt_fees) + Num(setup_costs)
        totalCostBasis == CheckerCostBasis(rows, Len(rows))
        exitsCostBasis ==
            Coalesce(SqlSum([i \in DOMAIN exits |->
                                Some(exits[i].cost_basis)]), 0)
        usdcBalance == Num(total_subscriptions) - totalCostBasis
                          - totalExpenses - Num(exitsCostBasis)
    IN  [holdings |-> rows,
         calculations |->
            [total_subscriptions |-> Num(total_subscriptions),
             total_cost_basis |-> totalCostBasis,
             total_expenses |-> totalExpenses,
             exits_cost_basis |-> Num(exitsCostBasis),
             usdc_balance |-> usdcBalance]]

----------------------------------------------------------------------------

\* one entry of priceData: price is `quote.price || 0`, the four
\* percent-change fields are numbers, there is no isManual field
Quote(p) ==
    [price |-> p, isManual |-> Null,
     percent_change_24h |-> Some(1), percent_change_7d |-> Some(2),
     percent_change_30d |-> Some(3), percent_change_60d |-> Some(4)]

LiveQuotes(t) == IF t = "BTC" THEN {Quote(4), Quote(0)} ELSE {Quote(1)}

\* the bodies GET /prices can answer with: a quote for some of the tracked
\* symbols; the empty map stands for a failed request as well
PriceResponses ==
    UNION {{f \in [T -> {Quote(0), Quote(1), Quote(4)}] :
                \A t \in T : f[t] \in LiveQuotes(t)} :
           T \in SUBSET {"BTC", "USDC"}}

----------------------------------------------------------------------------
(* GET /prices : the Price Cache *)

\* what the upstream call does: it throws (null), or answers with the quotes
\* of some symbols
UpstreamOutcomes == {Null} \cup {Some(r) : r \in PriceResponses}

\* a catch block that never serves the cache
FailureReply_AlwaysError(cache) ==
    [route |-> "prices", status |-> 500, body |-> Null, error_logged |-> TRUE]

\* catch: console.error, then the cached data if there is any, else 500
FailureReply(cache) ==
    IF cache.data # Null
    THEN [route |-> "prices", status |-> 200, body |-> cache.data,
          error_logged |-> TRUE]
    ELSE [route |-> "prices", status |-> 500, body |-> Null,
          error_logged |-> TRUE]

\* a cache that is still served at the age of CACHE_DURATION
CacheValid_Inclusive ==
    priceCache.data # Null /\ now - priceCache.timestamp <= CacheDuration

\* priceCache.data && (now - priceCache.timestamp) < CACHE_DURATION
CacheValid == priceCache.data # Null /\ now - priceCache.timestamp < CacheDuration

GetPrices(upstream) ==
    /\ IF CacheValid
       THEN /\ reply' = [route |-> "prices", status |-> 200,
                         body |-> priceCache.data, error_logged |-> FALSE]
            /\ priceCache' = priceCache
       ELSE IF upstream # Null
       THEN /\ priceCache' = [data |-> upstream, timestamp |-> now]
            /\ reply' = [route |-> "prices", status |-> 200,
                         body |-> upstream, error_logged |-> FALSE]
       ELSE /\ reply' = FailureReply(priceCache)
            /\ priceCache' = priceCache
    /\ UNCHANGED <<trades, nextTradeId, investors, nextInvestorId,
                   perf_tracker, nextPerfId, exits, nextExitId,
                   manual_prices, appVars, pending, now>>

\* time passes on the server
Tick ==
    /\ now < MaxClock
    /\ now' = now + 1
    /\ UNCHANGED <<trades, nextTradeId, investors, nextInvestorId,
                   perf_tracker, nextPerfId, exits, nextExitId,
                   manual_prices, appVars, priceCache, pending, reply>>

----------------------------------------------------------------------------
(* GET /prices, step by step: the handler is async and gives up control at
   `await axios.get`, so requests interleave there *)

\* the handler up to the await: `now` is taken, a valid cache is answered
\* at once, otherwise the upstream call is issued
PricesRequest(r) ==
    /\ r \notin DOMAIN pending
    /\ IF CacheValid
       THEN /\ reply' = [route |-> "prices", status |-> 200,
                         body |-> priceCache.data, error_logged |-> FALSE]
            /\ pending' = pending
       ELSE /\ pending' = [q \in DOMAIN pending \cup {r} |->
                              IF q = r THEN now ELSE pending[q]]
            /\ reply' = reply
    /\ UNCHANGED <<trades, nextTradeId, investors, nextInvestorId,
                   perf_tracker, nextPerfId, exits, nextExitId,
                   manual_prices, appVars, priceCache, now>>

\* the handler after the await: the cache is assigned with the `now` of the
\* request's start, or the catch block answers
PricesResume(r, upstream) ==
    /\ r \in DOMAIN pending
    /\ pending' = [q \in DOMAIN pending \ {r} |-> pending[q]]
    /\ IF upstream # Null
       THEN /\ priceCache' = [data |-> upstream, timestamp |-> pending[r]]
            /\ reply' = [route |-> "prices", status |-> 200,
                         body |-> upstream, error_logged |-> FALSE]
       ELSE /\ reply' = FailureReply(priceCache)
            /\ priceCache' = priceCache
    /\ UNCHANGED <<trades, nextTradeId, investors, nextInvestorId,
                   perf_tracker, nextPerfId, exits, nextExitId,
                   manual_prices, appVars, now>>

----------------------------------------------------------------------------
(* App: fetching *)

\* fetchData: the eight requests of Promise.all, answered from one ledger
\* state, and the setters that follow
FetchData(resp) ==
    /\ prices' = resp
    /\ holdings' = GetPortfolio
    /\ usdcData' = Some(GetPortfolioUsdc)
    /\ manualPrices' = GetManualPrices
    /\ perfTracker' = GetPerfTracker
    /\ UNCHANGED <<trades, nextTradeId, investors, nextInvestorId,
                   perf_tracker, nextPerfId, exits, nextExitId,
                   manual_prices, checkerData, currentMonth,
                   priceCache, pending, now, reply>>

\* the one-minute interval: setPrices(res.data || {})
PollPrices(resp) ==
    /\ prices' = resp
    /\ UNCHANGED <<trades, nextTradeId, investors, nextInvestorId,
                   perf_tracker, nextPerfId, exits, nextExitId,
                   manual_prices, manualPrices, holdings, usdcData,
                   perfTracker, checkerData, currentMonth,
                   priceCache, pending, now, reply>>

----------------------------------------------------------------------------
(* App: mergedPrices, the Price Resolver *)

\* a manual quote that keeps trend figures
ManualQuote_WithTrend(mp) ==
    [price |-> mp.price, isManual |-> Some(TRUE),
     percent_change_24h |-> Some(0), percent_change_7d |-> Some(0),
     percent_change_30d |-> Some(0), percent_change_60d |-> Some(0)]

ManualQuote(mp) ==
    [price |-> mp.price, isManual |-> Some(TRUE),
     percent_change_24h |-> Null, percent_change_7d |-> Null,
     percent_change_30d |-> Null, percent_change_60d |-> Null]

\* a resolver in which the manual price always wins
UseManual_Always(merged, mp) == TRUE

\* !merged[mp.token] || !merged[mp.token].price
UseManual(merged, mp) ==
    mp.token \notin DOMAIN merged \/ merged[mp.token].price = 0

RECURSIVE MergeManual(_, _, _)
\* manualPrices.forEach from index k on
MergeManual(merged, mps, k) ==
    IF k > Len(mps) THEN merged
    ELSE MergeManual(
            IF UseManual(merged, mps[k])
            THEN [t \in DOMAIN merged \cup {mps[k].token} |->
                    IF t = mps[k].token THEN ManualQuote(mps[k])
                    ELSE merged[t]]
            ELSE merged,
            mps, k + 1)

mergedPrices == MergeManual(prices, manualPrices, 1)

----------------------------------------------------------------------------
(* App: calculatePortfolioValue and PortfolioTab.enrichedHoldings *)

\* map[token]?.price || 0
PriceOf(map, token) == IF token \in DOMAIN map THEN map[token].price ELSE 0

RECURSIVE HoldingsValue(_, _)
\* holdings.forEach over the first n holdings
HoldingsValue(hs, n) ==
    IF n = 0 THEN 0
    ELSE HoldingsValue(hs, n - 1)
            + hs[n].total_units * PriceOf(mergedPrices, ToUpperCase(hs[n].token))

calculatePortfolioValue ==
    HoldingsValue(holdings, Len(holdings))
        + (IF usdcData # Null THEN usdcData[1].usdc_balance ELSE 0)

\* a weight without the guard on the portfolio value
Weight_Unguarded(value, portfolioValue) == <<value * 100, portfolioValue>>

\* portfolioValue > 0 ? (value / portfolioValue) * 100 : 0
Weight(value, portfolioValue) ==
    IF portfolioValue > 0 THEN <<value * 100, portfolioValue>> ELSE <<0, 1>>

\* priceData.percent_change_x of `prices[token] || {}`
TrendOf(map, token, field) ==
    IF token \in DOMAIN map THEN map[token][field] ELSE Null

EnrichHolding(holding, portfolioValue) ==
    LET token == ToUpperCase(holding.token)
        currentPrice == PriceOf(mergedPrices, token)
        currentValue == holding.total_units * currentPrice
    IN  [token |-> holding.token,
         total_units |-> holding.total_units,
         cost_basis |-> holding.cost_basis,
         currentPrice |-> currentPrice,
         currentValue |-> currentValue,
         pnl |-> currentValue - Num(holding.cost_basis),
         weight |-> Weight(currentValue, portfolioValue),
         hasCMCData |-> PriceOf(prices, token) # 0,
         isManualPrice |-> token \in DOMAIN mergedPrices
                             /\ mergedPrices[token].isManual = Some(TRUE),
         percent_change_24h |-> TrendOf(mergedPrices, token, "percent_change_24h"),
         percent_change_7d |-> TrendOf(mergedPrices, token, "percent_change_7d"),
         percent_change_30d |-> TrendOf(mergedPrices, token, "percent_change_30d"),
         percent_change_60d |-> TrendOf(mergedPrices, token, "percent_change_60d")]

UsdcHolding(portfolioValue) ==
    LET usdc_balance == usdcData[1].usdc_balance
    IN  [token |-> "USDC",
         total_units |-> usdc_balance,
         cost_basis |-> Some(usdc_balance),
         currentPrice |-> 1,
         currentValue |-> usdc_balance,
         pnl |-> 0,
         weight |-> Weight(usdc_balance, portfolioValue),
         hasCMCData |-> TRUE,
         isManualPrice |-> FALSE,
         percent_change_24h |-> Some(0), percent_change_7d |-> Some(0),
         percent_change_30d |-> Some(0), percent_change_60d |-> Some(0)]

\* a list that shows the cash row whenever the cash data has loaded
AddUsdc_Always == usdcData # Null

\* usdcData && usdcData.usdc_balance !== 0
AddUsdc == usdcData # Null /\ usdcData[1].usdc_balance # 0

enrichedHoldings ==
    LET portfolioValue == calculatePortfolioValue
        kept == SelectSeq(holdings, LAMBDA h : ToUpperCase(h.token) # "USDC")
        items == [k \in 1..Len(kept) |-> EnrichHolding(kept[k], portfolioValue)]
    IN  IF AddUsdc THEN Append(items, UsdcHolding(portfolioValue)) ELSE items

----------------------------------------------------------------------------
(* CheckerTab: the Checker over GET /checker/portfolio *)

\* fetchCheckerData: setData(res.data)
FetchCheckerData ==
    /\ checkerData' = Some(GetCheckerPortfolio)
    /\ UNCHANGED <<trades, nextTradeId, investors, nextInvestorId,
                   perf_tracker, nextPerfId, exits, nextExitId,
                   manual_prices, prices, manualPrices, holdings, usdcData,
                   perfTracker, currentMonth,
                   priceCache, pending, now, reply>>

\* a filter that shows the USDC row as well
CheckerShows_All(h) == TRUE

\* .filter(h => h.token.toUpperCase() !== 'USDC')
CheckerShows(h) == ToUpperCase(h.token) # "USDC"

\* .map(h => ({...h, price, value})) with price = prices[token]?.price || 0
\* over the merged price map the tab receives
CheckerValued(h) ==
    LET price == PriceOf(mergedPrices, ToUpperCase(h.token))
    IN  [token |-> h.token, net_units |-> h.net_units,
         cost_basis |-> h.cost_basis, trade_count |-> h.trade_count,
         price |-> price, value |-> h.net_units * price]

RECURSIVE SortByValueDesc(_, _)
\* .sort((a, b) => b.value - a.value) over the indices S; equal values keep
\* their order
SortByValueDesc(rows, S) ==
    IF S = {} THEN <<>>
    ELSE LET i == CHOOSE a \in S :
                      \A b \in S : \/ rows[a].value > rows[b].value
                                   \/ rows[a].value = rows[b].value /\ a <= b
         IN  <<rows[i]>> \o SortByValueDesc(rows, S \ {i})

holdingsWithValues ==
    LET shown == SelectSeq(checkerData[1].holdings, CheckerShows)
        valued == [k \in 1..Len(shown) |-> CheckerValued(shown[k])]
    IN  SortByValueDesc(valued, 1..Len(valued))

RECURSIVE CheckerValueSum(_, _)
CheckerValueSum(rows, n) ==
    IF n = 0 THEN 0 ELSE CheckerValueSum(rows, n - 1) + rows[n].value

\* the running total of the map, plus data.calculations.usdc_balance
totalPortfolioValue ==
    CheckerValueSum(holdingsWithValues, Len(holdingsWithValues))
        + checkerData[1].calculations.usdc_balance

\* holdingsWithValues.filter(h => h.net_units < 0).length > 0
NegativeHoldingsFlag ==
    \E k \in 1..Len(holdingsWithValues) : holdingsWithValues[k].net_units < 0

\* holdingsWithValues.filter(h => h.price === 0 && h.net_units > 0).length > 0
MissingPriceFlag ==
    \E k \in 1..Len(holdingsWithValues) :
        holdingsWithValues[k].price = 0 /\ holdingsWithValues[k].net_units > 0

\* data.calculations.usdc_balance < 0
NegativeUsdcFlag == checkerData[1].calculations.usdc_balance < 0

\* data.calculations.total_subscriptions === 0
NoSubscriptionsFlag == checkerData[1].calculations.total_subscriptions = 0

\* holdingsWithValues.filter(h => h.net_units < 0 ||
\*     (h.price === 0 && h.net_units > 0)).length === 0 &&
\* data.calculations.usdc_balance >= 0 &&
\* data.calculations.total_subscriptions > 0 : "No obvious issues detected."
NoIssuesMessage ==
    /\ \A k \in 1..Len(holdingsWithValues) :
          ~(\/ holdingsWithValues[k].net_units < 0
            \/ holdingsWithValues[k].price = 0
                  /\ holdingsWithValues[k].net_units > 0)
    /\ checkerData[1].calculations.usdc_balance >= 0
    /\ checkerData[1].calculations.total_subscriptions > 0

----------------------------------------------------------------------------
(* App: calculateReturns, the Return Calculator *)

RECURSIVE SortedByMonth(_, _)
\* [...perfTracker].sort((a, b) => a.month.localeCompare(b.month)) over the
\* indices S: ascending month, equal months in their given order
SortedByMonth(recs, S) ==
    IF S = {} THEN <<>>
    ELSE LET i == CHOOSE a \in S :
                      \A b \in S : \/ recs[a].month < recs[b].month
                                   \/ recs[a].month = recs[b].month /\ a <= b
         IN  <<recs[i]>> \o SortedByMonth(recs, S \ {i})

sortedPerf == SortedByMonth(perfTracker, 1..Len(perfTracker))

\* Array.prototype.pop of a filtered copy: the last element, or undefined
Pop(recs) == IF Len(recs) = 0 THEN Null ELSE Some(recs[Len(recs)])

\* a filter that lets the current month through
BeforeMonth_Inclusive(p, month) == p.month <= month

\* p.month < currentMonth
BeforeMonth(p, month) == p.month < month

\* rec?.ending_value || fallback
EndingValueOr(rec, fallback) ==
    IF rec # Null /\ rec[1].ending_value # 0 THEN rec[1].ending_value
    ELSE fallback

\* usdcData?.total_subscriptions || 0
totalSubscriptions ==
    IF usdcData = Null THEN 0 ELSE usdcData[1].total_subscriptions

lastMonthRecord ==
    Pop(SelectSeq(sortedPerf, LAMBDA p : BeforeMonth(p, currentMonth)))

beginningValue == EndingValueOr(lastMonthRecord, totalSubscriptions)

\* new Date().getFullYear()
currentYear == currentMonth \div 100

\* a filter on the current year instead of the year before it
lastYearEnd_ThisYear ==
    Pop(SelectSeq(sortedPerf, LAMBDA p : p.month \div 100 = currentYear))

\* p.month.startsWith(String(currentYear - 1))
lastYearEnd ==
    Pop(SelectSeq(sortedPerf, LAMBDA p : p.month \div 100 = currentYear - 1))

yearStartValue == EndingValueOr(lastYearEnd, beginningValue)

\* the subscriptions of the last record instead of the first
initialValue_Latest ==
    IF Len(sortedPerf) > 0
    THEN sortedPerf[Len(sortedPerf)].gp_subs + sortedPerf[Len(sortedPerf)].lp_subs
    ELSE totalSubscriptions

\* firstRecord ? (firstRecord.gp_subs + firstRecord.lp_subs)
\*             : (usdcData?.total_subscriptions || 0)
initialValue ==
    IF Len(sortedPerf) > 0 THEN sortedPerf[1].gp_subs + sortedPerf[1].lp_subs
    ELSE totalSubscriptions

\* the quotient without its guard
ReturnPct_Unguarded(totalValue, base) == <<(totalValue - base) * 100, base>>

\* base > 0 ? ((totalValue / base) - 1) * 100 : 0, as a quotient
ReturnPct(totalValue, base) ==
    IF base > 0 THEN <<(totalValue - base) * 100, base>> ELSE <<0, 1>>

calculateReturns ==
    LET totalValue == calculatePortfolioValue
    IN  [mtd |-> ReturnPct(totalValue, beginningValue),
         ytd |-> ReturnPct(totalValue, yearStartValue),
         sinceInception |-> ReturnPct(totalValue, initialValue)]

----------------------------------------------------------------------------
(* The trade ledger machine *)

NoRows == [i \in {} |-> Null]

\* the React state of App before the first fetch
AppInit ==
    /\ prices = NoRows
    /\ manualPrices = <<>>
    /\ holdings = <<>>
    /\ usdcData = Null
    /\ perfTracker = <<>>
    /\ checkerData = Null

\* the server's module state at start, and no response yet
ServerInit ==
    /\ priceCache = [data |-> Null, timestamp |-> 0]
    /\ pending = NoRows
    /\ now = CacheDuration
    /\ reply = Null

Init ==
    /\ trades = NoRows /\ nextTradeId = 1
    /\ investors = NoRows /\ nextInvestorId = 1
    /\ perf_tracker = NoRows /\ nextPerfId = 1
    /\ exits = NoRows /\ nextExitId = 1
    /\ manual_prices = NoRows
    /\ AppInit
    /\ ServerInit
    /\ currentMonth = 202601

\* request bodies of the trade form
TradeBodies ==
    [token : {"btc", "BTC", "usdc"}, units : {1, 3},
     avg_price : {Null}, total : {Null, Some(2)}, type : TradeTypes]
      \cup
    [token : {"btc", "BTC", "usdc"}, units : {1, 3},
     avg_price : {Some(1)}, total : {Null}, type : TradeTypes]

Next ==
    \/ \E body \in TradeBodies : PostTrade(body)
    \/ \E id \in 1..MaxTrades, body \in TradeBodies : PutTrade(id, body)
    \/ \E id \in 1..MaxTrades : DeleteTrade(id)

Spec == Init /\ [][Next]_vars

----------------------------------------------------------------------------
(* The cash machine: all four ledger tables change *)

CashTradeBodies ==
    {[token |-> "btc", units |-> 3, avg_price |-> Null, total |-> Some(2),
      type |-> ty] : ty \in TradeTypes}
      \cup
    {[token |-> "usdc", units |-> 3, avg_price |-> Null, total |-> Some(2),
      type |-> "Buy"]}

InvestorBodies == {[type |-> "GP", amount |-> 5], [type |-> "LP", amount |-> -1]}

PerfBodies ==
    {[month |-> 202512, gp_subs |-> Some(4), lp_subs |-> Null,
      ending_value |-> Some(6), fund_expenses |-> Some(1),
      mgmt_fees |-> Some(1), setup_costs |-> Null],
     [month |-> 202601, gp_subs |-> Null, lp_subs |-> Some(2),
      ending_value |-> Null, fund_expenses |-> Null,
      mgmt_fees |-> Null, setup_costs |-> Some(2)]}

ExitBodies == {[token |-> "xyz", cost_basis |-> 2],
               [token |-> "xyz", cost_basis |-> -1]}

NextCash ==
    \/ \E body \in CashTradeBodies : PostTrade(body)
    \/ \E id \in 1..MaxTrades, body \in CashTradeBodies : PutTrade(id, body)
    \/ \E id \in 1..MaxTrades : DeleteTrade(id)
    \/ \E body \in InvestorBodies : PostInvestor(body)
    \/ \E id \in 1..MaxInvestors, body \in InvestorBodies : PutInvestor(id, body)
    \/ \E id \in 1..MaxInvestors : DeleteInvestor(id)
    \/ \E body \in PerfBodies : PostPerfTracker(body)
    \/ \E id \in 1..MaxPerf, body \in PerfBodies : PutPerfTracker(id, body)
    \/ \E id \in 1..MaxPerf : DeletePerfTracker(id)
    \/ \E body \in ExitBodies : PostExit(body)
    \/ \E id \in 1..MaxExits, body \in ExitBodies : PutExit(id, body)
    \/ \E id \in 1..MaxExits : DeleteExit(id)

SpecCash == Init /\ [][NextCash]_vars

----------------------------------------------------------------------------
(* The valuation machine: the App over a ledger that the forms produced *)

ValuationTradeBodies ==
    [token : {"btc", "xyz", "usdc"}, units : {3}, avg_price : {Null},
     total : {Some(2)}, type : {"Buy", "Sell"}]

\* the trades table after up to MaxTrades POST /trades
TradeLedgers(bodies) ==
    UNION {[1..n -> {TradeRow(b) : b \in bodies}] : n \in 0..MaxTrades}

\* manual_prices after POST /manual-prices for some of the tokens
ManualTables ==
    {[t \in T |-> IF t = "BTC" THEN 7 ELSE 5] : T \in SUBSET {"BTC", "XYZ"}}

InitValuation ==
    /\ trades \in TradeLedgers(ValuationTradeBodies)
    /\ nextTradeId = Len(trades) + 1
    /\ investors \in {NoRows, <<[type |-> "GP", amount |-> 2]>>,
                      <<[type |-> "GP", amount |-> 5]>>}
    /\ nextInvestorId = Len(investors) + 1
    /\ perf_tracker = NoRows /\ nextPerfId = 1
    /\ exits = NoRows /\ nextExitId = 1
    /\ manual_prices \in ManualTables
    /\ AppInit
    /\ ServerInit
    /\ currentMonth = 202601

NextValuation ==
    \/ \E resp \in PriceResponses : FetchData(resp)
    \/ \E resp \in PriceResponses : PollPrices(resp)

SpecValuation == InitValuation /\ [][NextValuation]_vars

----------------------------------------------------------------------------
(* The returns machine: the App over a series of monthly records *)

\* the ending value entered for a month
EndingOf(month) ==
    CASE month = 202511 -> 7
      [] month = 202512 -> 6
      [] month = 202601 -> 8
      [] OTHER -> 9

ReturnsPerfBodies ==
    UNION {{[month |-> m, gp_subs |-> gp, lp_subs |-> Null,
             ending_value |-> ev, fund_expenses |-> Null,
             mgmt_fees |-> Null, setup_costs |-> Null] :
                gp \in {Null, Some(4)},
                ev \in {Null, Some(EndingOf(m)), Some(-1)}} :
           m \in {202511, 202512, 202601, 202602}}

\* perf_tracker after up to MaxPerf POST /perf-tracker for distinct months
PerfLedgers ==
    UNION {{t \in [1..n -> {PerfRow(b) : b \in ReturnsPerfBodies}] :
                \A i, j \in 1..n : i # j => t[i].month # t[j].month} :
           n \in 0..MaxPerf}

ReturnsTradeBodies ==
    {[token |-> "btc", units |-> 3, avg_price |-> Null, total |-> Some(2),
      type |-> "Buy"]}

InitReturns ==
    /\ trades \in {<<>>} \cup {<<TradeRow(b)>> : b \in ReturnsTradeBodies}
    /\ nextTradeId = Len(trades) + 1
    /\ investors \in {NoRows, <<[type |-> "LP", amount |-> 5]>>}
    /\ nextInvestorId = Len(investors) + 1
    /\ perf_tracker \in PerfLedgers
    /\ nextPerfId = Len(perf_tracker) + 1
    /\ exits = NoRows /\ nextExitId = 1
    /\ manual_prices = NoRows
    /\ AppInit
    /\ ServerInit
    /\ currentMonth \in {202601, 202602}

ReturnsPriceResponses == {r \in PriceResponses : \A t \in DOMAIN r : r[t].price = 4}

NextReturns ==
    \/ \E resp \in ReturnsPriceResponses : FetchData(resp)
    \/ \E resp \in ReturnsPriceResponses : PollPrices(resp)

SpecReturns == InitReturns /\ [][NextReturns]_vars

----------------------------------------------------------------------------
(* The monthly-record machine: the form and the sheet import *)

PerfSheetRows ==
    [month : {Null, Some(202512), Some(202601)}, gp_subs : {Null, Some(3)},
     lp_subs : {Null}, ending_value : {Some(9)}]

PerfSheets == UNION {[1..n -> PerfSheetRows] : n \in 1..MaxRows}

NextPerf ==
    \/ \E body \in PerfBodies : PostPerfTracker(body)
    \/ \E id \in 1..MaxPerf, body \in PerfBodies : PutPerfTracker(id, body)
    \/ \E id \in 1..MaxPerf : DeletePerfTracker(id)
    \/ \E rows \in PerfSheets : UploadPerfTracker(rows)

SpecPerf == Init /\ [][NextPerf]_vars

----------------------------------------------------------------------------
(* The clearing machine: rows are added and the tables are cleared *)

ClearTradeBodies ==
    {b \in CashTradeBodies : b.type = "Buy"}

NextClear ==
    \/ \E body \in ClearTradeBodies : PostTrade(body)
    \/ \E body \in {[type |-> "GP", amount |-> 5]} : PostInvestor(body)
    \/ \E body \in PerfBodies : PostPerfTracker(body)
    \/ \E body \in {[token |-> "xyz", cost_basis |-> 2]} : PostExit(body)
    \/ ClearTrades
    \/ ClearInvestors
    \/ ClearPerfTracker
    \/ ClearExits

SpecClear == Init /\ [][NextClear]_vars

----------------------------------------------------------------------------
(* The import machine: sheets of trades are uploaded *)

TradeSheetRows ==
    {[token |-> tk, units |-> Some(-3), avg_price |-> Null, total |-> Some(2),
      type |-> Some("sell"), raises |-> FALSE] :
        tk \in {Some(" "), Some("btc ")}}
      \cup
    {[token |-> Some("btc "), units |-> Some(-3), avg_price |-> Null,
      total |-> Some(2), type |-> Some("sell"), raises |-> TRUE]}
      \cup
    {[token |-> Some("btc "), units |-> u, avg_price |-> Null, total |-> Null,
      type |-> Null, raises |-> FALSE] : u \in {Null, Some(0)}}

TradeSheets == UNION {[1..n -> TradeSheetRows] : n \in 1..MaxRows}

NextImport ==
    \/ \E rows \in TradeSheets : UploadTrades(rows)
    \/ \E id \in 1..MaxTrades : DeleteTrade(id)

SpecImport == Init /\ [][NextImport]_vars

----------------------------------------------------------------------------
(* The entry machine: trades, exits and manual prices are entered through
   the forms and the imports *)

EntryTradeBodies ==
    [token : {"btc"}, units : {3, -3}, avg_price : {Null, Some(1)},
     total : {Null, Some(2)}, type : {"Sell"}]

EntryTradeSheets ==
    {<<row>> : row \in TradeSheetRows} \cup
    {<<[token |-> Some("btc "), units |-> Some(0), avg_price |-> Null,
        total |-> Some(2), type |-> Null, raises |-> FALSE]>>}

EntryExitBodies == [token : {"xyz", "XYZ"}, cost_basis : {2}]

EntryExitSheets ==
    {<<[token |-> tk, cost |-> c, raises |-> FALSE]>> :
        tk \in {Null, Some("xyz")}, c \in {Null, Some(2)}}

ManualPriceBodies == [token : {"btc", "BTC"}, price : {5, 7}]

NextEntry ==
    \/ \E body \in EntryTradeBodies : PostTrade(body)
    \/ \E id \in 1..MaxTrades, body \in EntryTradeBodies : PutTrade(id, body)
    \/ \E rows \in EntryTradeSheets : UploadTrades(rows)
    \/ \E body \in EntryExitBodies : PostExit(body)
    \/ \E id \in 1..MaxExits, body \in EntryExitBodies : PutExit(id, body)
    \/ \E rows \in EntryExitSheets : UploadExits(rows)
    \/ \E body \in ManualPriceBodies : PostManualPrice(body)
    \/ \E token \in {"btc", "BTC"} : DeleteManualPrice(token)

SpecEntry == Init /\ [][NextEntry]_vars

----------------------------------------------------------------------------
(* The price machine: GET /prices over time and upstream outcomes *)

NextPrices ==
    \/ Tick
    \/ \E upstream \in UpstreamOutcomes : GetPrices(upstream)

SpecPrices == Init /\ [][NextPrices]_vars

----------------------------------------------------------------------------
(* The request machine: GET /prices requests interleaving at the await *)

\* what the upstream call of a request does: it throws, or answers with a
\* quote for BTC
RefreshOutcomes == {Null, Some([t \in {"BTC"} |-> Quote(4)]),
                    Some([t \in {"BTC"} |-> Quote(0)])}

NextRequests ==
    \/ Tick
    \/ \E r \in 1..MaxRequests : PricesRequest(r)
    \/ \E r \in 1..MaxRequests, upstream \in RefreshOutcomes :
          PricesResume(r, upstream)

SpecRequests == Init /\ [][NextRequests]_vars

----------------------------------------------------------------------------
(* The ledger machine: trades are inserted, edited and deleted while the
   client reads the holdings, the cash balance and the reconciliation *)

LedgerTradeBodies ==
    {[token |-> "btc", units |-> 3, avg_price |-> Null, total |-> Some(2),
      type |-> ty] : ty \in {"Buy", "Sell"}}
      \cup
    {[token |-> "usdc", units |-> 3, avg_price |-> Null, total |-> Some(2),
      type |-> "Buy"]}

LedgerPriceResponses == {[t \in {"BTC"} |-> Quote(4)]}

InitLedger ==
    /\ trades = NoRows /\ nextTradeId = 1
    /\ investors = <<[type |-> "GP", amount |-> 5]>> /\ nextInvestorId = 2
    /\ perf_tracker = NoRows /\ nextPerfId = 1
    /\ exits = <<[token |-> "XYZ", cost_basis |-> 2]>> /\ nextExitId = 2
    /\ manual_prices = NoRows
    /\ AppInit
    /\ ServerInit
    /\ currentMonth = 202601

NextLedger ==
    \/ \E body \in LedgerTradeBodies : PostTrade(body)
    \/ \E id \in 1..MaxTrades, body \in LedgerTradeBodies : PutTrade(id, body)
    \/ \E id \in 1..MaxTrades : DeleteTrade(id)
    \/ \E resp \in LedgerPriceResponses : FetchData(resp)
    \/ FetchCheckerData

SpecLedger == InitLedger /\ [][NextLedger]_vars

----------------------------------------------------------------------------
(* The income machine: trades of every kind are added and deleted *)

IncomeTradeBodies ==
    [token : {"btc", "usdc"}, units : {3}, avg_price : {Null},
     total : {Null, Some(2)}, type : TradeTypes]

NextIncome ==
    \/ \E body \in IncomeTradeBodies : PostTrade(body)
    \/ \E id \in 1..MaxTrades : DeleteTrade(id)

SpecIncome == Init /\ [][NextIncome]_vars

----------------------------------------------------------------------------
(* The checker machine: the Checker tab over a ledger of all four tables *)

CheckerTradeBodies ==
    [token : {"btc", "usdc"}, units : {3}, avg_price : {Null},
     total : {Some(2)}, type : {"Buy", "Sell"}]
      \cup
    {[token |-> "btc", units |-> 1, avg_price |-> Null, total |-> Null,
      type |-> "Buy"]}

InitChecker ==
    /\ trades \in TradeLedgers(CheckerTradeBodies)
    /\ nextTradeId = Len(trades) + 1
    /\ investors \in {NoRows, <<[type |-> "GP", amount |-> 5]>>}
    /\ nextInvestorId = Len(investors) + 1
    /\ perf_tracker \in {NoRows} \cup {<<PerfRow(b)>> : b \in PerfBodies}
    /\ nextPerfId = Len(perf_tracker) + 1
    /\ exits \in {NoRows} \cup {<<ExitRow(b)>> : b \in ExitBodies}
    /\ nextExitId = Len(exits) + 1
    /\ manual_prices \in {t \in ManualTables : DOMAIN t \subseteq {"BTC"}}
    /\ AppInit
    /\ ServerInit
    /\ currentMonth = 202601

NextChecker ==
    \/ \E resp \in PriceResponses : FetchData(resp)
    \/ \E resp \in PriceResponses : PollPrices(resp)
    \/ FetchCheckerData

SpecChecker == InitChecker /\ [][NextChecker]_vars

----------------------------------------------------------------------------
(* The issues machine: the Checker tab over ledgers with subscriptions,
   redemptions and exits *)

IssuesTradeBodies ==
    [token : {"btc"}, units : {3}, avg_price : {Null}, total : {Some(2)},
     type : {"Buy", "Sell"}]

InitIssues ==
    /\ trades \in TradeLedgers(IssuesTradeBodies)
    /\ nextTradeId = Len(trades) + 1
    /\ investors \in {NoRows} \cup {<<b>> : b \in InvestorBodies}
    /\ nextInvestorId = Len(investors) + 1
    /\ perf_tracker = NoRows /\ nextPerfId = 1
    /\ exits \in {NoRows} \cup {<<ExitRow(b)>> : b \in ExitBodies}
    /\ nextExitId = Len(exits) + 1
    /\ manual_prices = NoRows
    /\ AppInit
    /\ ServerInit
    /\ currentMonth = 202601

NextIssues ==
    \/ \E resp \in PriceResponses : FetchData(resp)
    \/ \E resp \in PriceResponses : PollPrices(resp)
    \/ FetchCheckerData

SpecIssues == InitIssues /\ [][NextIssues]_vars

----------------------------------------------------------------------------
(* Properties of the ledger endpoints *)

Abs(x) == IF x < 0 THEN -x ELSE x

RECURSIVE SumIds(_, _)
\* the sum of an integer column over the ids 1..n that exist
SumIds(col, n) ==
    IF n = 0 THEN 0
    ELSE (IF n \in DOMAIN col THEN col[n] ELSE 0) + SumIds(col, n - 1)

\* signed sum of all investor flow amounts, GP and LP
FlowTotal ==
    SumIds([i \in DOMAIN investors |->
              IF investors[i].type = "GP" THEN investors[i].amount ELSE 0],
           nextInvestorId - 1)
      + SumIds([i \in DOMAIN investors |->
                  IF investors[i].type = "LP" THEN investors[i].amount ELSE 0],
               nextInvestorId - 1)

\* Buy: +total, Sell: -total, Income: 0 (a missing total counts as 0)
SignedTotal(r) ==
    IF r.type = "Buy" THEN Num(r.total)
    ELSE IF r.type = "Sell" THEN -Num(r.total) ELSE 0

\* Buy: +units, Sell: -units, Income: +units
SignedUnits(r) == IF r.type = "Sell" THEN -r.units ELSE r.units

DeployedTotal ==
    SumIds([i \in DOMAIN trades |->
              IF ToUpperCase(trades[i].token) = "USDC" THEN 0
              ELSE SignedTotal(trades[i])],
           nextTradeId - 1)

ExpenseTotal ==
    SumIds([i \in DOMAIN perf_tracker |->
              perf_tracker[i].fund_expenses + perf_tracker[i].mgmt_fees
                + perf_tracker[i].setup_costs],
           nextPerfId - 1)

ExitTotal ==
    SumIds([i \in DOMAIN exits |-> exits[i].cost_basis], nextExitId - 1)

RECURSIVE HoldingsCost(_, _)
\* the sum of cost_basis over the first n holdings, USDC left out
HoldingsCost(h, n) ==
    IF n = 0 THEN 0
    ELSE (IF ToUpperCase(h[n].token) = "USDC" THEN 0 ELSE Num(h[n].cost_basis))
            + HoldingsCost(h, n - 1)

\* C2: the cost_basis of the holdings GET /portfolio returns, USDC left out,
\* sums to the cost_basis term GET /portfolio/usdc subtracts.
C2_HoldingsCostIsDeployed ==
    HoldingsCost(GetPortfolio, Len(GetPortfolio)) = GetPortfolioUsdc.cost_basis

\* net units and cost basis of the trades whose upper-cased token is t
NetUnits(t) ==
    SumIds([i \in DOMAIN trades |->
              IF ToUpperCase(trades[i].token) = t
              THEN SignedUnits(trades[i]) ELSE 0],
           nextTradeId - 1)

NetCost(t) ==
    SumIds([i \in DOMAIN trades |->
              IF ToUpperCase(trades[i].token) = t
              THEN SignedTotal(trades[i]) ELSE 0],
           nextTradeId - 1)

\* C3: every holding of GET /portfolio carries the net units (Buy +, Sell -,
\* Income +) and the net cost (Buy +, Sell -, Income 0) of the trades of
\* its upper-cased token, and no two holdings share an upper-cased token.
C3_HoldingsAreNetSums ==
    LET h == GetPortfolio
    IN  \A k \in 1..Len(h) :
          /\ h[k].total_units = NetUnits(ToUpperCase(h[k].token))
          /\ Num(h[k].cost_basis) = NetCost(ToUpperCase(h[k].token))
          /\ \A j \in 1..Len(h) :
                j # k => ToUpperCase(h[j].token) # ToUpperCase(h[k].token)

\* a holding made of a purchase and an income trade of one token
C3_Witness ==
    /\ Len(GetPortfolio) = 1
    /\ GetPortfolio[1].total_units = 4
    /\ GetPortfolio[1].cost_basis = Some(2)
    /\ \E i, j \in DOMAIN trades :
          /\ trades[i].token = GetPortfolio[1].token
          /\ trades[j].token = GetPortfolio[1].token
          /\ trades[i].type = "Income" /\ trades[j].type = "Buy"

LedgerTokens == {ToUpperCase(trades[i].token) : i \in DOMAIN trades}

InHoldings(t) == \E k \in 1..Len(GetPortfolio) : GetPortfolio[k].token = t

\* C4 as stated: a token is left out exactly when |total_units| is below
\* the dust threshold, so one exactly at the threshold is returned.
C4_DustBelowThreshold ==
    \A t \in LedgerTokens :
        /\ Abs(NetUnits(t)) < DustThreshold => ~InHoldings(t)
        /\ Abs(NetUnits(t)) >= DustThreshold => InHoldings(t)

\* C4 amended: a token is returned exactly when |total_units| is above the
\* dust threshold; one exactly at the threshold is left out.
C4_DustAtOrBelowThreshold ==
    \A t \in LedgerTokens : InHoldings(t) <=> Abs(NetUnits(t)) > DustThreshold

\* a position exactly at the threshold, which is left out
C4_Witness ==
    \E t \in LedgerTokens : NetUnits(t) = DustThreshold /\ ~InHoldings(t)

----------------------------------------------------------------------------
(* Properties of the Price Resolver and the Valuation Engine *)

HasManual(t) == \E k \in 1..Len(manualPrices) : manualPrices[k].token = t

ManualPriceFor(t) ==
    manualPrices[CHOOSE k \in 1..Len(manualPrices) :
                    manualPrices[k].token = t].price

\* C5 as stated: every token that has a live quote resolves to that live
\* quote, whatever manual overrides exist.
C5_LiveQuoteAlwaysWins ==
    \A t \in DOMAIN prices : mergedPrices[t] = prices[t]

\* C5 amended: every token whose live quote has a non-zero price resolves
\* to that live quote, and a manual quote stands only where the live map
\* has no quote or a quote of price 0.
C5_PricedLiveQuoteWins ==
    /\ \A t \in DOMAIN prices :
          prices[t].price # 0 => mergedPrices[t] = prices[t]
    /\ \A t \in DOMAIN mergedPrices :
          mergedPrices[t].isManual = Some(TRUE)
              => t \notin DOMAIN prices \/ prices[t].price = 0

\* BTC has a live price and a manual override, and resolves to the live one
C5_Witness ==
    /\ "BTC" \in DOMAIN prices /\ prices["BTC"].price = 4
    /\ HasManual("BTC")
    /\ mergedPrices["BTC"] = prices["BTC"]

\* C6: a resolved quote is either the live quote, which is not marked
\* manual, or it carries the override's price, isManual = true and four
\* null percent-change fields.
C6_ManualQuoteShape ==
    \A t \in DOMAIN mergedPrices :
        LET q == mergedPrices[t]
        IN  IF t \in DOMAIN prices /\ q = prices[t]
            THEN q.isManual # Some(TRUE)
            ELSE /\ HasManual(t)
                 /\ q.price = ManualPriceFor(t)
                 /\ q.isManual = Some(TRUE)
                 /\ q.percent_change_24h = Null
                 /\ q.percent_change_7d = Null
                 /\ q.percent_change_30d = Null
                 /\ q.percent_change_60d = Null

\* XYZ resolves to its manual price next to a live quote for BTC
C6_Witness ==
    /\ "XYZ" \in DOMAIN mergedPrices
    /\ mergedPrices["XYZ"].isManual = Some(TRUE)
    /\ mergedPrices["XYZ"].price = 5
    /\ "BTC" \in DOMAIN mergedPrices
    /\ mergedPrices["BTC"].isManual = Null

\* the price a token resolves to: live if priced, else manual, else 0
ResolvedPrice(t) ==
    IF t \in DOMAIN prices /\ prices[t].price # 0 THEN prices[t].price
    ELSE IF HasManual(t) THEN ManualPriceFor(t)
    ELSE 0

\* C7: every holding whose token is not USDC is listed with market value
\* = units x resolved price, pnl = market value - cost basis and weight =
\* market value / total value x 100 (0 when the total value is not
\* positive); without a live quote it is tagged hasCMCData = false, and
\* without a manual price either its market value is 0 and its pnl is
\* -cost_basis.
C7_HoldingValuation ==
    LET pv == calculatePortfolioValue
        e == enrichedHoldings
    IN  \A i \in 1..Len(holdings) :
          LET h == holdings[i]
              t == ToUpperCase(h.token)
          IN  t # "USDC" =>
                \E k \in 1..Len(e) :
                  /\ e[k].token = h.token
                  /\ e[k].currentValue = h.total_units * ResolvedPrice(t)
                  /\ e[k].pnl = e[k].currentValue - Num(h.cost_basis)
                  /\ pv > 0 => /\ e[k].weight[2] # 0
                               /\ e[k].weight[1] * pv
                                    = e[k].currentValue * 100 * e[k].weight[2]
                  /\ pv <= 0 => e[k].weight[1] = 0
                  /\ t \notin DOMAIN prices => ~e[k].hasCMCData
                  /\ t \notin DOMAIN prices /\ ~HasManual(t)
                        => /\ e[k].currentValue = 0
                           /\ e[k].pnl = -Num(h.cost_basis)

\* XYZ is held without any price next to a priced BTC holding
C7_Witness ==
    LET e == enrichedHoldings
    IN  /\ \E k \in 1..Len(e) :
              /\ e[k].token = "XYZ" /\ e[k].currentValue = 0
              /\ e[k].pnl = -2 /\ ~e[k].hasCMCData
        /\ \E k \in 1..Len(e) :
              /\ e[k].token = "BTC" /\ e[k].currentValue = 12
              /\ e[k].weight = <<1200, calculatePortfolioValue>>

RECURSIVE ListValue(_, _)
\* the sum of market value over the first n rows of the holdings list
ListValue(e, n) ==
    IF n = 0 THEN 0 ELSE e[n].currentValue + ListValue(e, n - 1)

\* C8: the total value of the header is the sum of market value over the
\* holdings list.
C8_HeaderIsListTotal ==
    calculatePortfolioValue = ListValue(enrichedHoldings, Len(enrichedHoldings))

UsdcRows ==
    {k \in 1..Len(enrichedHoldings) :
        ToUpperCase(enrichedHoldings[k].token) = "USDC"}

UsdcRowShape(k, trend) ==
    LET x == enrichedHoldings[k]
        usdc_balance == usdcData[1].usdc_balance
    IN  /\ x.currentPrice = 1
        /\ x.currentValue = usdc_balance
        /\ x.cost_basis = Some(usdc_balance)
        /\ x.pnl = 0
        /\ x.percent_change_24h = trend
        /\ x.percent_change_7d = trend
        /\ x.percent_change_30d = trend
        /\ x.percent_change_60d = trend

\* C9 as stated: the list has a USDC row iff usdc_balance is non-zero; the
\* row has price 1, market value = cost basis = usdc_balance, pnl 0 and
\* null trend fields; a USDC holding made of trades is never listed.
C9_UsdcRowNullTrend ==
    /\ Cardinality(UsdcRows) <= 1
    /\ UsdcRows # {} <=> (usdcData # Null /\ usdcData[1].usdc_balance # 0)
    /\ \A k \in UsdcRows : UsdcRowShape(k, Null)

\* C9 amended: the same, with the four trend fields of the row being 0.
C9_UsdcRowZeroTrend ==
    /\ Cardinality(UsdcRows) <= 1
    /\ UsdcRows # {} <=> (usdcData # Null /\ usdcData[1].usdc_balance # 0)
    /\ \A k \in UsdcRows : UsdcRowShape(k, Some(0))

\* a USDC position made of trades is held and the cash row is listed
C9_Witness ==
    /\ \E i \in 1..Len(holdings) : holdings[i].token = "USDC"
    /\ UsdcRows # {}

----------------------------------------------------------------------------
(* Properties of the Return Calculator *)

\* the records of a month strictly before the current month
PriorRecords ==
    {k \in 1..Len(perfTracker) : perfTracker[k].month < currentMonth}

LatestPrior ==
    perfTracker[CHOOSE k \in PriorRecords :
                    \A j \in PriorRecords :
                        perfTracker[j].month <= perfTracker[k].month]

\* mtd is (total value / beginning value - 1) x 100 where that quotient
\* is defined
MtdIsRatio ==
    beginningValue > 0 =>
        /\ calculateReturns.mtd[2] # 0
        /\ calculateReturns.mtd[1] * beginningValue
              = (calculatePortfolioValue - beginningValue) * 100
                    * calculateReturns.mtd[2]

\* C10 as stated: the beginning-of-month value is the ending_value of the
\* latest record before the current month whenever there is one, and
\* total_subscriptions when there is none.
C10_BeginningIsPriorEnding ==
    /\ PriorRecords # {} => beginningValue = LatestPrior.ending_value
    /\ PriorRecords = {} => beginningValue = totalSubscriptions
    /\ MtdIsRatio

\* C10 amended: the beginning-of-month value is the ending_value of the
\* latest record before the current month whenever there is one and its
\* ending_value is not 0, and total_subscriptions otherwise.
C10_BeginningIsPriorEndingUnlessZero ==
    /\ (PriorRecords # {} /\ LatestPrior.ending_value # 0)
          => beginningValue = LatestPrior.ending_value
    /\ (PriorRecords = {} \/ LatestPrior.ending_value = 0)
          => beginningValue = totalSubscriptions
    /\ MtdIsRatio

\* two records precede the current month and the later one gives the
\* beginning value
C10_Witness ==
    /\ currentMonth = 202602
    /\ Cardinality(PriorRecords) = 2
    /\ \E k \in PriorRecords :
          perfTracker[k].month = 202512 /\ perfTracker[k].ending_value = 6
    /\ beginningValue = 8
    /\ totalSubscriptions = 5
    /\ calculateReturns.mtd = <<(calculatePortfolioValue - 8) * 100, 8>>

\* the records of the calendar year before the current one
PriorYearRecords ==
    {k \in 1..Len(perfTracker) :
        perfTracker[k].month \div 100 = currentMonth \div 100 - 1}

LatestPriorYear ==
    perfTracker[CHOOSE k \in PriorYearRecords :
                    \A j \in PriorYearRecords :
                        perfTracker[j].month <= perfTracker[k].month]

\* whether the quotient q is (total value / base - 1) x 100
IsRatio(q, base) ==
    /\ q[2] # 0
    /\ q[1] * base = (calculatePortfolioValue - base) * 100 * q[2]

\* C11 as stated: the year-start value is the ending_value of the latest
\* record of the prior calendar year whenever there is one, and the
\* beginning-of-month value when there is none; ytd is the ratio of the
\* total value to it.
C11_YearStartIsPriorYearEnding ==
    /\ PriorYearRecords # {} => yearStartValue = LatestPriorYear.ending_value
    /\ PriorYearRecords = {} => yearStartValue = beginningValue
    /\ yearStartValue > 0 => IsRatio(calculateReturns.ytd, yearStartValue)

\* C11 amended: the year-start value is the ending_value of the latest
\* record of the prior calendar year whenever there is one and its
\* ending_value is not 0, and the beginning-of-month value otherwise.
C11_YearStartIsPriorYearEndingUnlessZero ==
    /\ (PriorYearRecords # {} /\ LatestPriorYear.ending_value # 0)
          => yearStartValue = LatestPriorYear.ending_value
    /\ (PriorYearRecords = {} \/ LatestPriorYear.ending_value = 0)
          => yearStartValue = beginningValue
    /\ yearStartValue > 0 => IsRatio(calculateReturns.ytd, yearStartValue)

\* a record of the prior year and a later record of this year: the two
\* bases differ
C11_Witness ==
    /\ currentMonth = 202602
    /\ Cardinality(PriorYearRecords) = 1
    /\ LatestPriorYear.month = 202512
    /\ beginningValue = 8
    /\ yearStartValue = 6
    /\ calculatePortfolioValue = 15
    /\ calculateReturns.ytd = <<900, 6>>

\* the records of the earliest month
EarliestRecords ==
    {k \in 1..Len(perfTracker) :
        \A j \in 1..Len(perfTracker) :
            perfTracker[k].month <= perfTracker[j].month}

\* C12: the since-inception base is gp_subs + lp_subs of the record of the
\* earliest month, in whatever order the records were entered, when there
\* is a record, and total_subscriptions when there is none; since_inception
\* is the ratio of the total value to it.
C12_InceptionBaseIsEarliestRecord ==
    /\ \A k \in EarliestRecords :
          initialValue = perfTracker[k].gp_subs + perfTracker[k].lp_subs
    /\ perfTracker = <<>> => initialValue = totalSubscriptions
    /\ initialValue > 0
          => IsRatio(calculateReturns.sinceInception, initialValue)

\* the earliest month was entered last, and its subscriptions differ from
\* the other record's and from total_subscriptions
C12_Witness ==
    /\ Len(perfTracker) = 2
    /\ perf_tracker[1].month > perf_tracker[2].month
    /\ perf_tracker[2].gp_subs = 4 /\ perf_tracker[1].gp_subs = 0
    /\ totalSubscriptions = 5
    /\ initialValue = 4
    /\ calculatePortfolioValue = 15
    /\ calculateReturns.sinceInception = <<1100, 4>>

\* the three bases with the quotients computed over them
ReturnBases ==
    {<<beginningValue, calculateReturns.mtd>>,
     <<yearStartValue, calculateReturns.ytd>>,
     <<initialValue, calculateReturns.sinceInception>>}

\* C13: each of mtd, ytd and since_inception is exactly 0 when its
\* denominator is <= 0, and is always a finite number.
C13_GuardedReturns ==
    \A b \in ReturnBases :
        /\ b[2][2] # 0
        /\ b[1] <= 0 => b[2][1] = 0

\* a negative beginning value, a zero since-inception base, and a total
\* value that is not zero
C13_Witness ==
    /\ beginningValue < 0
    /\ initialValue = 0
    /\ calculatePortfolioValue > 0
    /\ calculateReturns.mtd = <<0, 1>>
    /\ calculateReturns.sinceInception = <<0, 1>>

----------------------------------------------------------------------------
(* Properties of the Checker *)

\* the cash balance of the ledger
LedgerCash == FlowTotal - DeployedTotal - ExpenseTotal - ExitTotal

\* the advisory flags other than the negative-holdings flag, and the
\* numbers next to them, over the tokens T
CheckerFlagsOver(T) ==
    /\ NegativeHoldingsFlag <=> \E t \in T : NetUnits(t) < 0
    /\ MissingPriceFlag
          <=> \E t \in T : NetUnits(t) > 0 /\ ResolvedPrice(t) = 0
    /\ NegativeUsdcFlag <=> LedgerCash < 0
    /\ NoSubscriptionsFlag <=> FlowTotal = 0
    /\ checkerData[1].calculations.usdc_balance = LedgerCash
    /\ checkerData[1].calculations.total_subscriptions = FlowTotal

\* C14 as stated: the negative-holdings flag is raised iff some token of
\* the trade ledger, whichever it is, has net units < 0; the missing-price
\* flag iff some token has net units > 0 and neither a live nor a manual
\* price; the negative-cash flag iff usdc_balance < 0; the no-subscriptions
\* flag iff total_subscriptions = 0; the numbers are the ledger's whatever
\* flags are raised.
C14_FlagsOverAnyToken ==
    checkerData # Null => CheckerFlagsOver(LedgerTokens)

\* C14 amended: as stated, with the two holdings flags ranging over the
\* tokens other than USDC.
C14_FlagsOverNonUsdcTokens ==
    checkerData # Null => CheckerFlagsOver(LedgerTokens \ {"USDC"})

\* BTC is held without any price and cash is negative: two flags are up,
\* and the numbers are the ledger's
C14_Witness ==
    /\ checkerData # Null
    /\ NetUnits("BTC") > 0 /\ ResolvedPrice("BTC") = 0
    /\ MissingPriceFlag /\ NegativeUsdcFlag
    /\ ~NegativeHoldingsFlag /\ ~NoSubscriptionsFlag
    /\ "USDC" \in LedgerTokens
    /\ checkerData[1].calculations.usdc_balance = LedgerCash

\* C15: GET /checker/portfolio reports in calculations the same
\* total_subscriptions, total_cost_basis, total_expenses, exits_cost_basis
\* and usdc_balance as GET /portfolio/usdc computes for the same ledger.
C15_CheckerAgreesWithCash ==
    LET c == GetCheckerPortfolio.calculations
        u == GetPortfolioUsdc
    IN  /\ c.total_subscriptions = u.total_subscriptions
        /\ c.total_cost_basis = u.cost_basis
        /\ c.total_expenses = u.total_expenses
        /\ c.exits_cost_basis = u.exits_cost_basis
        /\ c.usdc_balance = u.usdc_balance

\* a ledger with a priced and an unpriced BTC purchase,
\* subscriptions, expenses and an exit, after the Checker fetched it
C15_Witness ==
    /\ checkerData = Some(GetCheckerPortfolio)
    /\ \E i, j \in DOMAIN trades :
          /\ trades[i].token = "BTC" /\ trades[i].total = Null
          /\ trades[j].token = "BTC" /\ trades[j].total = Some(2)
    /\ investors # NoRows /\ perf_tracker # NoRows /\ exits # NoRows
    /\ GetPortfolioUsdc.cost_basis = 2
    /\ GetPortfolioUsdc.total_expenses = 2

----------------------------------------------------------------------------
(* Properties of the Price Cache *)

\* C16: when the upstream call of GET /prices fails and the cache has been
\* populated, the response is the cached quote set whatever its age and the
\* cache is left as it was; an error response is produced only when the
\* cache has never been populated.
C16_StaleCacheOnFailure ==
    [][/\ (reply' # Null /\ reply'.route = "prices" /\ reply'.error_logged)
           => /\ priceCache' = priceCache
              /\ IF priceCache.data # Null
                 THEN reply'.status = 200 /\ reply'.body = priceCache.data
                 ELSE reply'.status = 500
       /\ (reply' # Null /\ reply'.route = "prices" /\ reply'.status = 500)
           => priceCache'.data = Null /\ reply'.error_logged]_vars

\* the upstream call failed and the response is a cached BTC quote older
\* than the cache duration
C16_Witness ==
    /\ reply # Null /\ reply.route = "prices" /\ reply.error_logged
    /\ reply.status = 200
    /\ reply.body = priceCache.data
    /\ "BTC" \in DOMAIN priceCache.data[1]
    /\ now - priceCache.timestamp > CacheDuration

----------------------------------------------------------------------------
(* Properties of the monthly-record upsert *)

MonthExists(m) == \E i \in DOMAIN perf_tracker : perf_tracker[i].month = m

\* every field as re-submitted, 0 where nothing was supplied
Resubmitted(m, gp, lp, ev, fe, mf, sc) ==
    [month |-> m, gp_subs |-> Num(gp), lp_subs |-> Num(lp),
     ending_value |-> Num(ev), fund_expenses |-> Num(fe),
     mgmt_fees |-> Num(mf), setup_costs |-> Num(sc)]

\* C17: re-submitting a monthly record for a month that exists, through
\* POST /perf-tracker or through the sheet import, leaves exactly one record
\* for that month, and every field of it, fund_expenses, mgmt_fees and
\* setup_costs included, is the re-submitted value (0 when not supplied).
C17_ResubmitOverwritesAll ==
    [][/\ \A body \in PerfBodies :
             (PostPerfTracker(body) /\ MonthExists(body.month))
                => \E i \in DOMAIN perf_tracker' :
                      /\ perf_tracker'[i] =
                            Resubmitted(body.month, body.gp_subs, body.lp_subs,
                                        body.ending_value, body.fund_expenses,
                                        body.mgmt_fees, body.setup_costs)
                      /\ \A j \in DOMAIN perf_tracker' \ {i} :
                            perf_tracker'[j].month # body.month
       /\ \A rows \in PerfSheets :
             UploadPerfTracker(rows)
                => \A k \in 1..Len(rows) :
                      (/\ rows[k].month # Null
                       /\ MonthExists(rows[k].month[1])
                       /\ \A l \in (k + 1)..Len(rows) :
                             rows[l].month # rows[k].month)
                        => \E i \in DOMAIN perf_tracker' :
                              /\ perf_tracker'[i] =
                                    Resubmitted(rows[k].month[1],
                                                rows[k].gp_subs, rows[k].lp_subs,
                                                rows[k].ending_value,
                                                Null, Null, Null)
                              /\ \A j \in DOMAIN perf_tracker' \ {i} :
                                    perf_tracker'[j].month # rows[k].month[1]
      ]_vars

----------------------------------------------------------------------------
(* Properties of the bulk deletes *)

\* C18: after a successful DELETE /trades/all the trade ledger has no rows
\* and GET /portfolio returns no holdings, whatever trades existed; likewise
\* /investors/all, /perf-tracker/all and /exits/all empty their tables.
C18_ClearAllEmptiesTheTable ==
    [][/\ ClearTrades => (trades' = <<>> /\ GetPortfolio' = <<>>)
       /\ ClearInvestors => investors' = <<>>
       /\ ClearPerfTracker => perf_tracker' = <<>>
       /\ ClearExits => exits' = <<>>]_vars

----------------------------------------------------------------------------
(* Properties of the trade import *)

\* a row the import accepts: a token that is not blank, numeric units, and
\* not zero units without a total
ValidRow(row) ==
    /\ row.token # Null /\ row.token[1] \notin {"", " "}
    /\ row.units # Null
    /\ ~(row.units[1] = 0 /\ (row.total = Null \/ row.total[1] = 0))

\* the rows of a sheet that are to be inserted, in order
RowsToInsert(rows) ==
    SelectSeq(rows, LAMBDA row : ValidRow(row) /\ ~row.raises)

\* C19: no bad row aborts a trade import: every row is counted exactly once
\* (imported + skipped = number of rows), every valid row is inserted even
\* when other rows are invalid or raise an error, and the response reports
\* success with both counts.
C19_ImportNeverAborts ==
    [][\A rows \in TradeSheets :
          (/\ reply' # Null /\ reply'.route = "upload/trades"
           /\ reply'.body.total = Len(rows)
           /\ UploadTrades(rows)) =>
            LET ins == RowsToInsert(rows)
            IN  /\ reply'.status = 200 /\ reply'.body.success
                /\ reply'.body.imported + reply'.body.skipped = Len(rows)
                /\ reply'.body.imported = Len(ins)
                /\ nextTradeId' = nextTradeId + Len(ins)
                /\ \A i \in DOMAIN trades : trades'[i] = trades[i]
                /\ \A k \in 1..Len(ins) :
                      /\ trades'[nextTradeId + k - 1].units
                            = Abs(ins[k].units[1])
                      /\ trades'[nextTradeId + k - 1].token = "BTC"
                      /\ trades'[nextTradeId + k - 1].total
                            = ins[k].total]_vars

\* a sheet of two rows of which one raised an error and the other was
\* inserted
C19_Witness ==
    /\ reply # Null /\ reply.route = "upload/trades"
    /\ reply.body.total = 2
    /\ reply.body.imported = 1 /\ reply.body.skipped = 1
    /\ reply.body.errors = 1
    /\ Cardinality(DOMAIN trades) = 1

\* C20: in the result of a trade import the per-reason counters (no_token,
\* zero_units, invalid_units, other) sum to the skipped count, rows skipped
\* because processing them raised an error included.
C20_ReasonsSumToSkipped ==
    (reply # Null /\ reply.route = "upload/trades") =>
        LET r == reply.body.skippedReasons
        IN  r.noToken + r.zeroUnits + r.invalidUnits + r.other
              = reply.body.skipped

----------------------------------------------------------------------------
(* Properties of trade entry *)

\* C21: after any sequence of POST /trades, PUT /trades/:id and imports,
\* every trade row of the ledger has units > 0.
C21_UnitsArePositive ==
    \A i \in DOMAIN trades : trades[i].units > 0

\* C22: every stored trade has both avg_price and total defined, and
\* avg_price x units = total.
C22_PriceTimesUnitsIsTotal ==
    \A i \in DOMAIN trades :
        /\ trades[i].avg_price # Null
        /\ trades[i].total # Null
        /\ trades[i].avg_price[1] * trades[i].units
              = trades[i].total[1] * trades[i].avg_price[2]

\* the symbols that are written in upper case
UpperCaseSymbols == {"BTC", "USDC", "XYZ"}

\* the upper-case spelling of a symbol
UpperOf(t) ==
    IF t \in {"btc", "BTC"} THEN "BTC"
    ELSE IF t \in {"usdc", "USDC"} THEN "USDC"
    ELSE "XYZ"

\* C23: every token stored in trades, exits and manual price overrides is
\* upper-case, and a manual price override submitted for a token in any
\* letter case upserts the one override keyed by the upper-cased token.
C23_TokensAreUpperCase ==
    /\ [](/\ \A i \in DOMAIN trades : trades[i].token \in UpperCaseSymbols
          /\ \A i \in DOMAIN exits : exits[i].token \in UpperCaseSymbols
          /\ DOMAIN manual_prices \subseteq UpperCaseSymbols)
    /\ [][\A body \in ManualPriceBodies :
            PostManualPrice(body) =>
              /\ DOMAIN manual_prices'
                    = DOMAIN manual_prices \cup {UpperOf(body.token)}
              /\ manual_prices'[UpperOf(body.token)] = body.price
              /\ \A t \in DOMAIN manual_prices \ {UpperOf(body.token)} :
                    manual_prices'[t] = manual_prices[t]]_vars

\* an override entered in upper case and re-submitted in lower case, next
\* to a trade and an exit that were entered in lower case
C23_Witness ==
    /\ DOMAIN manual_prices = {"BTC"}
    /\ manual_prices["BTC"] = 7
    /\ \E i \in DOMAIN trades : trades[i].token = "BTC"
    /\ \E i \in DOMAIN exits : exits[i].token = "XYZ"
    /\ reply # Null /\ reply.route = "upload/exits"
    /\ reply.body.imported = 1

----------------------------------------------------------------------------
(* Properties of concurrent GET /prices requests *)

\* C24: for any interleaving of GET /prices requests, at most one upstream
\* price call is in flight at a time.
C24_OneUpstreamCallInFlight == Cardinality(DOMAIN pending) <= 1

\* C25: a request that finds the cache populated and less than 60 seconds
\* old is answered with exactly the cached quotes, issues no upstream call
\* and leaves the cache unchanged; any other request issues the upstream
\* call.
C25_FreshCacheIsServed ==
    [][\A r \in 1..MaxRequests :
          PricesRequest(r) =>
            IF priceCache.data # Null
                 /\ now - priceCache.timestamp < CacheDuration
            THEN /\ reply'.status = 200
                 /\ reply'.body = priceCache.data
                 /\ pending' = pending
                 /\ priceCache' = priceCache
            ELSE /\ r \in DOMAIN pending'
                 /\ pending'[r] = now]_vars

\* a populated cache of age 60 seconds or more, a request that found it so
\* and awaits the upstream call, after an answer from the cache
C25_Witness ==
    /\ priceCache.data # Null
    /\ reply # Null /\ reply.route = "prices"
    /\ reply.body = priceCache.data /\ ~reply.error_logged
    /\ \E r \in DOMAIN pending :
          /\ pending[r] = now
          /\ now - priceCache.timestamp = CacheDuration

\* C28: across any interleaving of GET /prices requests the timestamp of
\* the price cache never decreases.
C28_TimestampNeverDecreases ==
    [][priceCache'.timestamp >= priceCache.timestamp]_vars

----------------------------------------------------------------------------
(* Properties of the derived values as functions of the ledger *)

\* the rows of a table as a bag: how often each row content occurs,
\* whatever its id
RowBag(table) ==
    [e \in {table[i] : i \in DOMAIN table} |->
        Cardinality({i \in DOMAIN table : table[i] = e})]

RECURSIVE BagTotal(_, _, _)
\* the sum of col over the rows S of the bag B, each counted as often as
\* it occurs
BagTotal(B, S, col) ==
    IF S = {} THEN 0
    ELSE LET e == CHOOSE x \in S : TRUE
         IN  B[e] * col[e] + BagTotal(B, S \ {e}, col)

\* net units of a token over the bag of trades
BagUnits(t) ==
    LET B == RowBag(trades)
    IN  BagTotal(B, {e \in DOMAIN B : e.token = t},
                 [e \in DOMAIN B |-> SignedUnits(e)])

\* net cost of a token over the bag of trades
BagCost(t) ==
    LET B == RowBag(trades)
    IN  BagTotal(B, {e \in DOMAIN B : e.token = t},
                 [e \in DOMAIN B |-> SignedTotal(e)])

\* the cash residual over the bags of the four tables
BagCash ==
    LET T == RowBag(trades)
        I == RowBag(investors)
        P == RowBag(perf_tracker)
        X == RowBag(exits)
    IN  BagTotal(I, DOMAIN I, [e \in DOMAIN I |-> e.amount])
          - BagTotal(T, {e \in DOMAIN T : e.token # "USDC"},
                     [e \in DOMAIN T |-> SignedTotal(e)])
          - BagTotal(P, DOMAIN P,
                     [e \in DOMAIN P |->
                        e.fund_expenses + e.mgmt_fees + e.setup_costs])
          - BagTotal(X, DOMAIN X, [e \in DOMAIN X |-> e.cost_basis])

\* C26: the per-token total_units and cost_basis of the holdings and of the
\* reconciliation breakdown, and the usdc_balance of both endpoints, are the
\* values of the rows the ledger holds now, whatever inserts, edits and
\* deletes led there (ids and id gaps play no part); reading them leaves
\* the ledger unchanged.
C26_DerivedFromLedgerRowsOnly ==
    /\ [](/\ \A k \in DOMAIN GetPortfolio :
                /\ GetPortfolio[k].total_units = BagUnits(GetPortfolio[k].token)
                /\ Num(GetPortfolio[k].cost_basis)
                      = BagCost(GetPortfolio[k].token)
          /\ \A k \in DOMAIN GetCheckerPortfolio.holdings :
                LET h == GetCheckerPortfolio.holdings[k]
                IN  /\ h.net_units = BagUnits(h.token)
                    /\ Num(h.cost_basis) = BagCost(h.token)
          /\ {GetCheckerPortfolio.holdings[k].token :
                   k \in DOMAIN GetCheckerPortfolio.holdings}
                = {trades[i].token : i \in DOMAIN trades}
          /\ GetPortfolioUsdc.usdc_balance = BagCash
          /\ GetCheckerPortfolio.calculations.usdc_balance = BagCash)
    /\ [][(FetchCheckerData \/ \E resp \in LedgerPriceResponses : FetchData(resp))
            => UNCHANGED <<trades, nextTradeId, investors, nextInvestorId,
                           perf_tracker, nextPerfId, exits, nextExitId,
                           manual_prices>>]_vars

\* the first trade was deleted and the ledger holds a later one, which the
\* client has read through all three endpoints
C26_Witness ==
    /\ DOMAIN trades = {2}
    /\ trades[2].token = "BTC" /\ trades[2].type = "Buy"
    /\ Len(holdings) = 1 /\ holdings[1].total_units = 3
    /\ usdcData # Null /\ usdcData[1].usdc_balance = 1
    /\ checkerData # Null /\ checkerData[1].calculations.usdc_balance = 1

----------------------------------------------------------------------------
(* Properties of income *)

\* the aggregate of a token's group, 0 for a token without trades
GroupUnits(t) == IF TokenGroup(t) = {} THEN 0 ELSE GroupRow(t).total_units

GroupCost(t) == IF TokenGroup(t) = {} THEN 0 ELSE Num(GroupRow(t).cost_basis)

\* C27: adding an Income trade of u units for token T increases T's
\* total_units by u and leaves unchanged T's cost_basis, every other
\* token's units and cost basis, total_cost_basis and usdc_balance.
C27_IncomeAddsUnitsOnly ==
    [][\A body \in IncomeTradeBodies :
          body.type = "Income" /\ PostTrade(body) =>
            /\ GroupUnits(UpperOf(body.token))'
                  = GroupUnits(UpperOf(body.token)) + body.units
            /\ GroupCost(UpperOf(body.token))'
                  = GroupCost(UpperOf(body.token))
            /\ \A t \in UpperCaseSymbols \ {UpperOf(body.token)} :
                  /\ GroupUnits(t)' = GroupUnits(t)
                  /\ GroupCost(t)' = GroupCost(t)
            /\ \A k \in DOMAIN GetPortfolio :
                  GetPortfolio[k].token # UpperOf(body.token)
                    => \E j \in DOMAIN GetPortfolio' :
                          GetPortfolio'[j] = GetPortfolio[k]
            /\ GetPortfolioUsdc'.cost_basis = GetPortfolioUsdc.cost_basis
            /\ GetPortfolioUsdc'.usdc_balance = GetPortfolioUsdc.usdc_balance
            /\ GetCheckerPortfolio'.calculations
                  = GetCheckerPortfolio.calculations]_vars

\* an Income trade with a total, added to a position that was bought
C27_Witness ==
    /\ DOMAIN trades = {1, 2}
    /\ trades[1].token = "BTC" /\ trades[1].type = "Buy"
    /\ trades[1].total = Some(2)
    /\ trades[2].token = "BTC" /\ trades[2].type = "Income"
    /\ trades[2].total = Some(2)
    /\ GroupUnits("BTC") = trades[1].units + trades[2].units
    /\ GroupCost("BTC") = 2

----------------------------------------------------------------------------
(* Properties of the Checker's panels *)

\* C29: once the Checker has loaded, its issues panel shows either at least
\* one of the four advisory warnings or the "No obvious issues detected"
\* message, never both and never neither.
C29_WarningsOrNoIssues ==
    checkerData # Null =>
        ((NegativeHoldingsFlag \/ MissingPriceFlag \/ NegativeUsdcFlag
            \/ NoSubscriptionsFlag) <=> ~NoIssuesMessage)

\* C30: for the same ledger and the same merged price map, the total
\* portfolio value of the Checker tab equals the total portfolio value of
\* calculatePortfolioValue.
C30_CheckerTotalIsHeaderTotal ==
    (checkerData = Some(GetCheckerPortfolio) /\ holdings = GetPortfolio
        /\ usdcData = Some(GetPortfolioUsdc))
      => totalPortfolioValue = calculatePortfolioValue

====
